---- MODULE Spec2Model ----
(***************************************************************************)
(* Orchestra CLI: the design-token build.                                  *)
(*                                                                         *)
(* Two builds live in the repository and both are modelled here:           *)
(*   - bin/index.js: runBuild normalises the token document, classifies    *)
(*     its top-level groups, aggregates the shared primitives and, brand   *)
(*     by brand, awaits the Style Dictionary platforms of the target;      *)
(*   - unnamed/part_000: runBuild walks each brand itself and writes the   *)
(*     theme files with its own writers (the CSS/TS writer merges with the *)
(*     file already on disk).                                              *)
(*                                                                         *)
(* A JavaScript string is a sequence of one-character strings, so that     *)
(* case conversion, regular expressions and file contents are computed     *)
(* character by character.  A JSON value is a tagged record; an object     *)
(* keeps its members as a sequence of <<key, value>> pairs in insertion    *)
(* order.                                                                  *)
(***************************************************************************)
EXTENDS Integers, Sequences, FiniteSets, TLC

\* ------------------------------------------------------------------------
\* Characters and strings
\* ------------------------------------------------------------------------

Lower == <<"a", "b", "c", "d", "e", "f", "g", "h", "i", "j", "k", "l", "m",
           "n", "o", "p", "q", "r", "s", "t", "u", "v", "w", "x", "y", "z">>
Upper == <<"A", "B", "C", "D", "E", "F", "G", "H", "I", "J", "K", "L", "M",
           "N", "O", "P", "Q", "R", "S", "T", "U", "V", "W", "X", "Y", "Z">>
Digits == <<"0", "1", "2", "3", "4", "5", "6", "7", "8", "9">>

LowerSet == {Lower[i] : i \in DOMAIN Lower}
UpperSet == {Upper[i] : i \in DOMAIN Upper}
DigitSet == {Digits[i] : i \in DOMAIN Digits}

IndexOf(seq, c) == CHOOSE i \in DOMAIN seq : seq[i] = c

\* String.prototype.toLowerCase / toUpperCase on one ASCII character.
toLowerCaseChar(c) == IF c \in UpperSet THEN Lower[IndexOf(Upper, c)] ELSE c
toUpperCaseChar(c) == IF c \in LowerSet THEN Upper[IndexOf(Lower, c)] ELSE c

toLowerCase(s) == [i \in DOMAIN s |-> toLowerCaseChar(s[i])]
toUpperCase(s) == [i \in DOMAIN s |-> toUpperCaseChar(s[i])]

\* String.prototype.includes(lit)
Includes(s, lit) ==
    \E i \in 0..(Len(s) - Len(lit)) :
        \A j \in 1..Len(lit) : s[i + j] = lit[j]

\* /lit/i.test(s) for a lower-case literal
TestCI(s, lit) == Includes(toLowerCase(s), lit)

StartsWith(s, lit) ==
    /\ Len(s) >= Len(lit)
    /\ \A j \in 1..Len(lit) : s[j] = lit[j]

RECURSIVE Concat(_)
Concat(parts) ==
    IF parts = <<>> THEN <<>> ELSE Head(parts) \o Concat(Tail(parts))

\* lines.join(sep)
RECURSIVE Join(_, _)
Join(lines, sep) ==
    IF lines = <<>> THEN <<>>
    ELSE IF Len(lines) = 1 THEN lines[1]
    ELSE lines[1] \o sep \o Join(Tail(lines), sep)

\* Number -> decimal string, for the index keys of a string or an array.
RECURSIVE NumToStr(_)
NumToStr(n) ==
    IF n < 10 THEN <<Digits[n + 1]>>
    ELSE NumToStr(n \div 10) \o <<Digits[(n % 10) + 1]>>

RECURSIVE StrToNum(_)
StrToNum(s) ==
    IF s = <<>> THEN 0
    ELSE 10 * StrToNum(SubSeq(s, 1, Len(s) - 1)) + (IndexOf(Digits, s[Len(s)]) - 1)

\* String literals of the source.
S_value == <<"v", "a", "l", "u", "e">>
S_dvalue == <<"$", "v", "a", "l", "u", "e">>
S_Component == <<"C", "o", "m", "p", "o", "n", "e", "n", "t">>
S_component == <<"c", "o", "m", "p", "o", "n", "e", "n", "t">>
S_brand == <<"b", "r", "a", "n", "d">>
S_semantic == <<"s", "e", "m", "a", "n", "t", "i", "c">>
S_token == <<"t", "o", "k", "e", "n">>
S_primitive == <<"p", "r", "i", "m", "i", "t", "i", "v", "e">>
S_base == <<"b", "a", "s", "e">>
S_core == <<"c", "o", "r", "e">>
S_global == <<"g", "l", "o", "b", "a", "l">>
S_spacing == <<"s", "p", "a", "c", "i", "n", "g">>
S_web == <<"w", "e", "b">>
S_android == <<"a", "n", "d", "r", "o", "i", "d">>
S_ios == <<"i", "o", "s">>
S_flutter == <<"f", "l", "u", "t", "t", "e", "r">>
S_all == <<"a", "l", "l">>
S_css == <<"c", "s", "s">>
S_ts == <<"t", "s">>
S_constructor == <<"c", "o", "n", "s", "t", "r", "u", "c", "t", "o", "r">>
S_proto == <<"_", "_", "p", "r", "o", "t", "o", "_", "_">>
S_theme_dash == <<"t", "h", "e", "m", "e", "-">>
S_theme_us == <<"t", "h", "e", "m", "e", "_">>
S_Theme == <<"T", "h", "e", "m", "e">>
S_dot_css == <<".", "c", "s", "s">>
S_dot_ts == <<".", "t", "s">>
S_dot_xml == <<".", "x", "m", "l">>
S_dot_swift == <<".", "s", "w", "i", "f", "t">>
S_dot_dart == <<".", "d", "a", "r", "t">>
S_dot_kt == <<".", "k", "t">>

\* ------------------------------------------------------------------------
\* JSON values and JavaScript objects
\* ------------------------------------------------------------------------

Undefined == [t |-> "undefined"]
Null == [t |-> "null"]
JStr(s) == [t |-> "string", s |-> s]
JNum(n) == [t |-> "number", n |-> n]
JBool(b) == [t |-> "boolean", b |-> b]
JObj(kv) == [t |-> "object", kv |-> kv]

\* Object literals of one and of two members.
Obj1(k, v) == JObj(<< <<k, v>> >>)
Obj2(k1, v1, k2, v2) == JObj(<< <<k1, v1>>, <<k2, v2>> >>)

\* typeof v
TypeOf(v) == IF v.t = "null" THEN "object" ELSE v.t

\* ToBoolean(v): what !v, v || w and if (v) test.
Truthy(v) ==
    CASE v.t = "undefined" -> FALSE
      [] v.t = "null" -> FALSE
      [] v.t = "string" -> v.s # <<>>
      [] v.t = "number" -> v.n # 0
      [] v.t = "boolean" -> v.b
      [] OTHER -> TRUE

\* The largest array index, 2^32 - 2, in decimal.
MaxArrayIndex == <<"4", "2", "9", "4", "9", "6", "7", "2", "9", "4">>

\* a < b for two digit strings of the same length
RECURSIVE DigitsLess(_, _)
DigitsLess(a, b) ==
    IF a = <<>> THEN FALSE
    ELSE IF Head(a) = Head(b) THEN DigitsLess(Tail(a), Tail(b))
    ELSE IndexOf(Digits, Head(a)) < IndexOf(Digits, Head(b))

\* a < b for two canonical digit strings, as numbers
IndexLess(a, b) ==
    Len(a) < Len(b) \/ (Len(a) = Len(b) /\ DigitsLess(a, b))

\* A canonical array index ("0", "7", "12"; not "", "01", "a1"), below
\* 2^32 - 1: a larger integer key is an ordinary key.
IsArrayIndex(k) ==
    /\ k # <<>>
    /\ \A i \in DOMAIN k : k[i] \in DigitSet
    /\ (Len(k) > 1 => k[1] # "0")
    /\ ~IndexLess(MaxArrayIndex, k)

\* The own keys of an object in insertion order.
InsertionKeys(o) == [i \in DOMAIN o.kv |-> o.kv[i][1]]

RECURSIVE SortIndexKeys(_)
SortIndexKeys(ks) ==
    IF ks = {} THEN <<>>
    ELSE LET m == CHOOSE k \in ks : \A l \in ks \ {k} : IndexLess(k, l)
         IN <<m>> \o SortIndexKeys(ks \ {m})

\* Object.keys(v): array-index keys in ascending numeric order, then the
\* other keys in insertion order; the indices of a string; nothing for a
\* number, a boolean or a function.  (Object.keys(null) throws: see the
\* callers.)
ObjectKeys(v) ==
    CASE v.t = "object" ->
            LET ks == InsertionKeys(v)
                idx == {ks[i] : i \in {j \in DOMAIN ks : IsArrayIndex(ks[j])}}
            IN SortIndexKeys(idx) \o SelectSeq(ks, LAMBDA k : ~IsArrayIndex(k))
      [] v.t = "string" -> [i \in DOMAIN v.s |-> NumToStr(i - 1)]
      [] OTHER -> <<>>

\* An own member of o named k
HasKey(o, k) == o.t = "object" /\ \E i \in DOMAIN o.kv : o.kv[i][1] = k

\* The characters of a name given as one string
Chars(name) == [i \in 1..Len(name) |-> SubSeq(name, i, i)]

\* A function built into the engine: its name, its length (the number of
\* declared parameters) and String(f).
NativeFunction(name, length) ==
    [t |-> "function",
     s |-> <<"f", "u", "n", "c", "t", "i", "o", "n", " ">> \o name
               \o <<"(", ")", " ", "{", " ", "[", "n", "a", "t", "i", "v", "e", " ", "c", "o", "d", "e", "]", " ", "}">>,
     name |-> name,
     length |-> length]

S_length == <<"l", "e", "n", "g", "t", "h">>
S_name == <<"n", "a", "m", "e">>
S_prototype == <<"p", "r", "o", "t", "o", "t", "y", "p", "e">>

\* The classes whose prototype objects the values of the program inherit
\* from; each is also the name of its constructor function.
BuiltinClasses == {"Object", "String", "Number", "Boolean", "Function"}

\* The methods of each built-in prototype: <<key, name of the function,
\* length of the function>>.  trimLeft and trimRight are the functions
\* trimStart and trimEnd under a second key.
PrototypeMethods(class) ==
    CASE class = "Object" ->
            {<<"toString", "toString", 0>>, <<"valueOf", "valueOf", 0>>,
             <<"hasOwnProperty", "hasOwnProperty", 1>>,
             <<"isPrototypeOf", "isPrototypeOf", 1>>,
             <<"propertyIsEnumerable", "propertyIsEnumerable", 1>>,
             <<"toLocaleString", "toLocaleString", 0>>,
             <<"__defineGetter__", "__defineGetter__", 2>>,
             <<"__defineSetter__", "__defineSetter__", 2>>,
             <<"__lookupGetter__", "__lookupGetter__", 1>>,
             <<"__lookupSetter__", "__lookupSetter__", 1>>}
      [] class = "String" ->
            {<<"at", "at", 1>>, <<"charAt", "charAt", 1>>,
             <<"charCodeAt", "charCodeAt", 1>>,
             <<"codePointAt", "codePointAt", 1>>, <<"concat", "concat", 1>>,
             <<"endsWith", "endsWith", 1>>, <<"includes", "includes", 1>>,
             <<"indexOf", "indexOf", 1>>,
             <<"isWellFormed", "isWellFormed", 0>>,
             <<"lastIndexOf", "lastIndexOf", 1>>,
             <<"localeCompare", "localeCompare", 1>>,
             <<"match", "match", 1>>, <<"matchAll", "matchAll", 1>>,
             <<"normalize", "normalize", 0>>, <<"padEnd", "padEnd", 1>>,
             <<"padStart", "padStart", 1>>, <<"repeat", "repeat", 1>>,
             <<"replace", "replace", 2>>, <<"replaceAll", "replaceAll", 2>>,
             <<"search", "search", 1>>, <<"slice", "slice", 2>>,
             <<"split", "split", 2>>, <<"startsWith", "startsWith", 1>>,
             <<"substr", "substr", 2>>, <<"substring", "substring", 2>>,
             <<"toLocaleLowerCase", "toLocaleLowerCase", 0>>,
             <<"toLocaleUpperCase", "toLocaleUpperCase", 0>>,
             <<"toLowerCase", "toLowerCase", 0>>,
             <<"toString", "toString", 0>>,
             <<"toUpperCase", "toUpperCase", 0>>,
             <<"toWellFormed", "toWellFormed", 0>>, <<"trim", "trim", 0>>,
             <<"trimEnd", "trimEnd", 0>>, <<"trimStart", "trimStart", 0>>,
             <<"valueOf", "valueOf", 0>>, <<"anchor", "anchor", 1>>,
             <<"big", "big", 0>>, <<"blink", "blink", 0>>,
             <<"bold", "bold", 0>>, <<"fixed", "fixed", 0>>,
             <<"fontcolor", "fontcolor", 1>>, <<"fontsize", "fontsize", 1>>,
             <<"italics", "italics", 0>>, <<"link", "link", 1>>,
             <<"small", "small", 0>>, <<"strike", "strike", 0>>,
             <<"sub", "sub", 0>>, <<"sup", "sup", 0>>,
             <<"trimLeft", "trimStart", 0>>, <<"trimRight", "trimEnd", 0>>}
      [] class = "Number" ->
            {<<"toExponential", "toExponential", 1>>,
             <<"toFixed", "toFixed", 1>>,
             <<"toPrecision", "toPrecision", 1>>,
             <<"toString", "toString", 1>>, <<"valueOf", "valueOf", 0>>,
             <<"toLocaleString", "toLocaleString", 0>>}
      [] class = "Boolean" ->
            {<<"toString", "toString", 0>>, <<"valueOf", "valueOf", 0>>}
      [] class = "Function" ->
            {<<"apply", "apply", 2>>, <<"bind", "bind", 1>>,
             <<"call", "call", 1>>, <<"toString", "toString", 0>>}

\* An object whose prototype was replaced carries it in the field proto
\* (an object, or null); any other object has Object.prototype.
HasProto(o) == "proto" \in DOMAIN o
WithProto(o, p) == [t |-> "object", kv |-> o.kv, proto |-> p]
WithMembers(o, kv) ==
    IF HasProto(o) THEN [t |-> "object", kv |-> kv, proto |-> o.proto]
    ELSE JObj(kv)

\* Function.prototype: itself a function, without a name.
FunctionPrototype ==
    [t |-> "function",
     s |-> <<"f", "u", "n", "c", "t", "i", "o", "n", " ", "(", ")", " ", "{", " ", "[", "n", "a", "t", "i", "v", "e", " ", "c", "o", "d", "e", "]", " ", "}">>,
     name |-> <<>>,
     length |-> 0]

\* The prototype object of a built-in class carries the class in the field
\* builtin: it has no enumerable member.
IsBuiltin(o) == "builtin" \in DOMAIN o
BuiltinPrototype(class) ==
    IF class = "Function" THEN FunctionPrototype
    ELSE [t |-> "object", kv |-> <<>>, builtin |-> class]

\* Object.prototype itself
ObjectPrototype == [t |-> "object", kv |-> <<>>, builtin |-> "Object"]

\* Object.getPrototypeOf(Object(v)): the next object of the chain after v,
\* null after Object.prototype.
PrototypeOf(v) ==
    IF v.t = "object" /\ IsBuiltin(v) /\ v.builtin = "Object" THEN Null
    ELSE IF v.t = "object" /\ HasProto(v) THEN v.proto
    ELSE BuiltinPrototype(
             CASE v.t = "string" -> "String"
               [] v.t = "number" -> "Number"
               [] v.t = "boolean" -> "Boolean"
               [] v.t = "function" /\ v.name # <<>> -> "Function"
               [] OTHER -> "Object")

Found(x) == [found |-> TRUE, value |-> x]
NotFound == [found |-> FALSE]

\* What the prototype object of a class holds under a name: constructor,
\* one of its methods, length on String.prototype, and on Object.prototype
\* the __proto__ accessor, which answers the prototype of the receiver.
Inherited(class, key, receiver) ==
    LET named == {m \in PrototypeMethods(class) : Chars(m[1]) = key}
             \cup (IF key = S_constructor THEN {<<class, class, 1>>} ELSE {})
    IN IF named # {}
       THEN Found(NativeFunction(Chars((CHOOSE m \in named : TRUE)[2]),
                                 (CHOOSE m \in named : TRUE)[3]))
       ELSE IF class = "String" /\ key = S_length THEN Found(JNum(0))
       ELSE IF class = "Object" /\ key = S_proto THEN Found(PrototypeOf(receiver))
       ELSE NotFound

\* What the value o itself holds under the name k: a member of an object;
\* a character or the length of a string; the length and the name of a
\* function, prototype on a constructor; what a built-in prototype holds.
Own(o, k, receiver) ==
    IF o.t = "object" /\ ~IsBuiltin(o)
    THEN IF \E i \in DOMAIN o.kv : o.kv[i][1] = k
         THEN Found(o.kv[CHOOSE i \in DOMAIN o.kv : o.kv[i][1] = k][2])
         ELSE NotFound
    ELSE IF o.t = "string"
    THEN IF IsArrayIndex(k) /\ Len(k) <= 9 /\ StrToNum(k) < Len(o.s)
         THEN Found(JStr(<<o.s[StrToNum(k) + 1]>>))
         ELSE IF k = S_length THEN Found(JNum(Len(o.s)))
         ELSE NotFound
    ELSE IF o.t = "function" /\ k = S_length THEN Found(JNum(o.length))
    ELSE IF o.t = "function" /\ k = S_name THEN Found(JStr(o.name))
    ELSE IF o.t = "function" /\ k = S_prototype
            /\ \E c \in BuiltinClasses : o.name = Chars(c)
    THEN Found(BuiltinPrototype(CHOOSE c \in BuiltinClasses : o.name = Chars(c)))
    ELSE IF o.t = "object" \/ (o.t = "function" /\ o.name = <<>>)
    THEN Inherited(IF o.t = "function" THEN "Function" ELSE o.builtin, k, receiver)
    ELSE NotFound

\* receiver[k] looked up from o on along the prototype chain: what o holds
\* (own), else what the next object of the chain (next) answers.
RECURSIVE GetFrom(_, _, _)
RECURSIVE OwnElseFrom(_, _, _, _)
OwnElseFrom(own, next, k, receiver) ==
    IF own.found THEN own.value
    ELSE IF next.t = "null" THEN Undefined
    ELSE GetFrom(next, k, receiver)

GetFrom(o, k, receiver) ==
    OwnElseFrom(Own(o, k, receiver), PrototypeOf(o), k, receiver)

\* v[k]: a member of an object, its own or an inherited one; a character
\* or the length of a string; a member a string, a number, a boolean or a
\* function inherits from the prototype of its class.  (A read from null
\* or undefined throws: see the callers.)
Get(v, k) ==
    IF v.t \in {"null", "undefined"} THEN Undefined ELSE GetFrom(v, k, v)

\* The __proto__ accessor of Object.prototype is what o.__proto__ = x
\* reaches: no object of the chain has a member of that name and the chain
\* does not end in null.
RECURSIVE ReachesProtoAccessor(_)
ReachesProtoAccessor(o) ==
    /\ ~HasKey(o, S_proto)
    /\ (HasProto(o) => o.proto.t # "null" /\ ReachesProtoAccessor(o.proto))

\* o[k] = x: an existing member keeps its place, a new one is appended;
\* under the name __proto__ the accessor replaces the prototype when x is
\* an object or null, ignores any other x, and creates no member.
SetKey(o, k, x) ==
    IF HasKey(o, k)
    THEN WithMembers(o, [i \in DOMAIN o.kv |->
                           IF o.kv[i][1] = k THEN <<k, x>> ELSE o.kv[i]])
    ELSE IF k = S_proto /\ ReachesProtoAccessor(o)
         THEN IF x.t \in {"object", "null"} THEN WithProto(o, x) ELSE o
         ELSE WithMembers(o, Append(o.kv, <<k, x>>))

\* Object.assign(target, source) for an object target: the own enumerable
\* members of source in Object.keys order; null and undefined are skipped.
RECURSIVE AssignKeys(_, _, _)
AssignKeys(target, source, ks) ==
    IF ks = <<>> THEN target
    ELSE AssignKeys(SetKey(target, Head(ks), Get(source, Head(ks))), source, Tail(ks))

ObjectAssign(target, source) == AssignKeys(target, source, ObjectKeys(source))

\* ------------------------------------------------------------------------
\* bin/index.js: helpers
\* ------------------------------------------------------------------------

IsLowerAlnum(c) == c \in LowerSet \cup DigitSet

\* .replace(/([a-z0-9])([A-Z])/g, '$1-$2')
RECURSIVE SplitCamelHumps(_)
SplitCamelHumps(s) ==
    IF Len(s) < 2 THEN s
    ELSE IF IsLowerAlnum(s[1]) /\ s[2] \in UpperSet
         THEN <<s[1], "-", s[2]>> \o SplitCamelHumps(SubSeq(s, 3, Len(s)))
         ELSE <<s[1]>> \o SplitCamelHumps(Tail(s))

RECURSIVE DropNonAlnum(_)
DropNonAlnum(s) ==
    IF s = <<>> \/ IsLowerAlnum(Head(s)) THEN s ELSE DropNonAlnum(Tail(s))

\* .replace(/[^a-z0-9]+/g, '-')
RECURSIVE DashNonAlnum(_)
DashNonAlnum(s) ==
    IF s = <<>> THEN <<>>
    ELSE IF IsLowerAlnum(Head(s)) THEN <<Head(s)>> \o DashNonAlnum(Tail(s))
         ELSE <<"-">> \o DashNonAlnum(DropNonAlnum(s))

\* .replace(/(^-|-$)/g, '')
TrimDashes(s) ==
    LET a == IF s # <<>> /\ s[1] = "-" THEN Tail(s) ELSE s
    IN IF a # <<>> /\ a[Len(a)] = "-" THEN SubSeq(a, 1, Len(a) - 1) ELSE a

toKebabCase(str) == TrimDashes(DashNonAlnum(toLowerCase(SplitCamelHumps(str))))

IsAlnum(c) == c \in LowerSet \cup UpperSet \cup DigitSet

RECURSIVE NonAlnumRun(_)
NonAlnumRun(s) ==
    IF s = <<>> \/ IsAlnum(Head(s)) THEN 0 ELSE 1 + NonAlnumRun(Tail(s))

\* The characters the dot of a regular expression does not match.
LineTerminators == {"\n", "\r"}

\* The place of the character (.) captures when /[^a-zA-Z0-9]+(.)/ is
\* tried at the start of s, whose separator run has r characters: the
\* character after the run, else (the run ends the string and gives
\* characters back) the last character of the run that is not a line
\* terminator and has a separator before it; 0 when there is none.
CapturedAt(s, r) ==
    LET places == {p \in 2..(r + 1) : p <= Len(s) /\ s[p] \notin LineTerminators}
    IN IF places = {} THEN 0
       ELSE CHOOSE p \in places : \A q \in places : q <= p

\* .replace(/[^a-zA-Z0-9]+(.)/g, (m, chr) => chr.toUpperCase()): a run of
\* separators and the character after it become that character in upper
\* case; where the expression does not match, the character stays.
RECURSIVE UpperAfterSeparators(_)
UpperAfterSeparators(s) ==
    IF s = <<>> THEN <<>>
    ELSE LET p == CapturedAt(s, NonAlnumRun(s)) IN
         IF p = 0 THEN <<Head(s)>> \o UpperAfterSeparators(Tail(s))
         ELSE <<toUpperCaseChar(s[p])>>
                  \o UpperAfterSeparators(SubSeq(s, p + 1, Len(s)))

toCamelCase(str) == UpperAfterSeparators(toLowerCase(str))

FirstIndexOf(s, c) ==
    IF \E i \in DOMAIN s : s[i] = c
    THEN CHOOSE i \in DOMAIN s : s[i] = c /\ \A j \in 1..(i - 1) : s[j] # c
    ELSE 0

SlashToDot(c) == IF c = "/" THEN "." ELSE c

\* val.replace(/\{([^}]+)\}/g, (match, content) =>
\*     `{${content.replace(/\//g, '.')}}`)
RECURSIVE FixReferences(_)
FixReferences(s) ==
    IF s = <<>> THEN <<>>
    ELSE IF Head(s) = "{"
         THEN LET close == FirstIndexOf(s, "}") IN
              IF close > 2
              THEN <<"{">> \o [i \in 1..(close - 2) |-> SlashToDot(s[i + 1])] \o <<"}">>
                       \o FixReferences(SubSeq(s, close + 1, Len(s)))
              ELSE <<"{">> \o FixReferences(Tail(s))
         ELSE <<Head(s)>> \o FixReferences(Tail(s))

\* typeof v === 'string' && v.includes('{') && v.includes('/')
NeedsReferenceFix(v) ==
    v.t = "string" /\ Includes(v.s, <<"{">>) /\ Includes(v.s, <<"/">>)

\* newObj[key] = entry for each key in turn, newObj starting as {}.
RECURSIVE assignEntries(_, _)
assignEntries(newObj, entries) ==
    IF entries = <<>> THEN newObj
    ELSE assignEntries(SetKey(newObj, Head(entries)[1], Head(entries)[2]),
                       Tail(entries))

\* normalizeTokens(obj): raw values become { value } records, references
\* written with slashes are rewritten with dots, groups are recursed into.
RECURSIVE normalizeTokens(_)
normalizeTokens(obj) ==
    IF obj.t # "object" THEN obj
    ELSE
      LET keys == ObjectKeys(obj)
          Entry(key) ==
            LET val == Get(obj, key) IN
            IF key = S_value \/ key = S_dvalue \/ StartsWith(key, <<"$">>)
            THEN val
            ELSE IF val.t \in {"string", "number", "boolean"}
            THEN JObj(<< <<S_value,
                           IF NeedsReferenceFix(val)
                           THEN JStr(FixReferences(val.s)) ELSE val>> >>)
            ELSE IF val.t = "object"
            THEN IF Get(val, S_value) # Undefined \/ Get(val, S_dvalue) # Undefined
                 THEN LET tokenVal == IF Truthy(Get(val, S_value))
                                      THEN Get(val, S_value)
                                      ELSE Get(val, S_dvalue)
                      IN IF NeedsReferenceFix(tokenVal)
                         THEN SetKey(val, S_value, JStr(FixReferences(tokenVal.s)))
                         ELSE val
                 ELSE normalizeTokens(val)
            ELSE val
      IN assignEntries(JObj(<<>>),
                       [i \in DOMAIN keys |-> <<keys[i], Entry(keys[i])>>])

\* ------------------------------------------------------------------------
\* bin/index.js: runBuild, key finding and primitive aggregation
\* ------------------------------------------------------------------------

\* /component|brand|semantic|token/i.test(k)
componentLike(k) ==
    TestCI(k, S_component) \/ TestCI(k, S_brand)
        \/ TestCI(k, S_semantic) \/ TestCI(k, S_token)

\* /primitive|base|core|global|spacing/i.test(k)
primitiveLike(k) ==
    TestCI(k, S_primitive) \/ TestCI(k, S_base) \/ TestCI(k, S_core)
        \/ TestCI(k, S_global) \/ TestCI(k, S_spacing)

\* keys.find(P): the first key satisfying P, else undefined.
Find(keys, P(_)) ==
    IF \E i \in DOMAIN keys : P(keys[i])
    THEN JStr(keys[CHOOSE i \in DOMAIN keys :
                      P(keys[i]) /\ \A j \in 1..(i - 1) : ~P(keys[j])])
    ELSE Undefined

\* keys[1]
SecondKey(keys) == IF Len(keys) >= 2 THEN JStr(keys[2]) ELSE Undefined

\* The selection without its middle step: by name, else keys[1].
findComponentKeyPositional(keys) ==
    LET byName == Find(keys, LAMBDA k : componentLike(k) /\ ~primitiveLike(k))
    IN IF Truthy(byName) THEN byName ELSE SecondKey(keys)

\* let componentKey = keys.find(...); if (!componentKey) componentKey =
\*     keys.find(k => k.includes('Component')) || keys[1];
findComponentKey(keys) ==
    LET byName == Find(keys, LAMBDA k : componentLike(k) /\ ~primitiveLike(k))
        explicit == Find(keys, LAMBDA k : Includes(k, S_Component))
    IN IF Truthy(byName) THEN byName
       ELSE IF Truthy(explicit) THEN explicit ELSE SecondKey(keys)

\* keys.filter(k => k !== componentKey)
findSharedKeys(keys, componentKey) ==
    SelectSeq(keys, LAMBDA k : JStr(k) # componentKey)

\* !componentGroup || typeof componentGroup !== 'object'
notAnObject(componentGroup) ==
    ~Truthy(componentGroup) \/ TypeOf(componentGroup) # "object"

\* groupKeys.some(k => typeof group[k] === 'object' && !group[k].value
\*     && !group[k].$value), left to right: "throws" when a null child is
\* read before any child answers true.
RECURSIVE probeModes(_, _)
probeModes(group, ks) ==
    IF ks = <<>> THEN "false"
    ELSE LET child == Get(group, Head(ks)) IN
         IF TypeOf(child) # "object" THEN probeModes(group, Tail(ks))
         ELSE IF child.t = "null" THEN "throws"
         ELSE IF ~Truthy(Get(child, S_value)) /\ ~Truthy(Get(child, S_dvalue))
              THEN "true"
              ELSE probeModes(group, Tail(ks))

\* Object.keys(group) throws on null and undefined.
hasModes(group) ==
    IF group.t \in {"null", "undefined"} THEN "throws"
    ELSE probeModes(group, ObjectKeys(group))

\* The loop over sharedKeys: each group, or its first mode, is assigned
\* into allBasePrimitives.  [threw, prims].
RECURSIVE aggregatePrimitives(_, _, _)
aggregatePrimitives(tokens, shared, acc) ==
    IF shared = <<>> THEN [threw |-> FALSE, prims |-> acc]
    ELSE LET group == Get(tokens, Head(shared))
             modes == hasModes(group)
         IN IF modes = "throws" THEN [threw |-> TRUE, prims |-> acc]
            ELSE LET source == IF modes = "true"
                               THEN Get(group, ObjectKeys(group)[1])
                               ELSE group
                 IN aggregatePrimitives(tokens, Tail(shared),
                                        ObjectAssign(acc, source))

\* ------------------------------------------------------------------------
\* bin/index.js: runBuild, platform mapping and destinations
\* ------------------------------------------------------------------------

Platforms == <<S_css, S_ts, S_android, S_ios, S_flutter>>
PlatformSet == {Platforms[i] : i \in DOMAIN Platforms}

JArray(items) == [kind |-> "array", items |-> items]
NotAnArray(kind) == [kind |-> kind, items |-> <<>>]

\* platformMap with web: ['css'] only.
platformMapWebCssOnly(target) ==
    CASE target = S_web -> JArray(<<S_css>>)
      [] target = S_android -> JArray(<<S_android>>)
      [] target = S_ios -> JArray(<<S_ios>>)
      [] target = S_flutter -> JArray(<<S_flutter>>)
      [] target = S_all -> JArray(Platforms)
      [] OTHER -> NotAnArray("undefined")

\* platformMap[target]: the five own members, and the members every object
\* literal inherits from Object.prototype under an all-lower-case name
\* (constructor is the function Object, __proto__ is Object.prototype).
platformMap(target) ==
    CASE target = S_web -> JArray(<<S_css, S_ts>>)
      [] target = S_android -> JArray(<<S_android>>)
      [] target = S_ios -> JArray(<<S_ios>>)
      [] target = S_flutter -> JArray(<<S_flutter>>)
      [] target = S_all -> JArray(Platforms)
      [] target = S_constructor -> NotAnArray("function")
      [] target = S_proto -> NotAnArray("object")
      [] OTHER -> NotAnArray("undefined")

\* (platformArg || 'all').toLowerCase(); an absent argument and the empty
\* string are both falsy and are both written <<>>.
targetOf(arg) == toLowerCase(IF arg = <<>> THEN S_all ELSE arg)

\* platformMap[target] || ([...].includes(target) ? [target] : [])
platformsToBuild(target) ==
    LET mapped == platformMap(target) IN
    IF mapped.kind # "undefined" THEN mapped
    ELSE IF target \in PlatformSet THEN JArray(<<target>>) ELSE JArray(<<>>)

\* platformsToBuild.length === 0 (Object.length is 1, Object.prototype has
\* no length)
lengthIsZero(p) == p.kind = "array" /\ p.items = <<>>

\* buildPath of each platform
buildPath(p) ==
    CASE p = S_css -> "src/styles"
      [] p = S_ts -> "src/styles"
      [] p = S_android -> "tokens/android"
      [] p = S_ios -> "tokens/ios"
      [] p = S_flutter -> "tokens/flutter"

\* files[0].destination of each platform
destination(brand, p) ==
    CASE p = S_css -> S_theme_dash \o toKebabCase(brand) \o S_dot_css
      [] p = S_ts -> S_theme_dash \o toKebabCase(brand) \o S_dot_ts
      [] p = S_android -> S_theme_us \o toKebabCase(brand) \o S_dot_xml
      [] p = S_ios -> S_Theme \o toCamelCase(brand) \o S_dot_swift
      [] p = S_flutter -> S_theme_us \o toKebabCase(brand) \o S_dot_dart

OutputFile(brand, p) == [dir |-> buildPath(p), name |-> destination(brand, p)]

\* A directory and the directories above it (mkdir recursive).
WithParents(dir) ==
    CASE dir = "src/styles" -> {"src", "src/styles"}
      [] dir = "tokens/android" -> {"tokens", "tokens/android"}
      [] dir = "tokens/ios" -> {"tokens", "tokens/ios"}
      [] dir = "tokens/flutter" -> {"tokens", "tokens/flutter"}
      [] OTHER -> {dir}

\* platformsToBuild.forEach(p => ensureDir(...))
RECURSIVE ensureDirs(_, _)
ensureDirs(dirs, ps) ==
    IF ps = <<>> THEN dirs
    ELSE ensureDirs(dirs \cup WithParents(buildPath(Head(ps))), Tail(ps))

\* ------------------------------------------------------------------------
\* State
\* ------------------------------------------------------------------------

VARIABLES
    fsDirs,         \* the directories that exist under the working directory
    fsFiles,        \* the files that exist: [dir, name]
    tokenDoc,       \* JSON.parse of tokens/design-tokens.json (undefined: no file)
    platformArg,    \* process.argv[3], <<>> when absent
    pc,             \* "start", "await" (inside await Promise.all), "exited"
    exitCode,       \* the exit status, -1 while the process runs
    stderr,         \* what console.error and console.warn reported
    tokens,         \* runBuild: const tokens
    componentKey,   \* runBuild: let componentKey
    sharedKeys,     \* runBuild: const sharedKeys
    basePrimitives, \* runBuild: const basePrimitives
    brandNames,     \* runBuild: const brandNames
    brandIdx,       \* the brand of the for-of loop, 1-based
    emit,           \* per brand, per platform: idle, running, done, failed
    started,        \* the brands whose loop body has run, in order
    fileText,       \* part_000: the text of the theme files on disk
    env,            \* part_000: TOKENS_PRIMITIVE_KEY and TOKENS_COMPONENT_KEY
    runs,           \* part_000: the commands that have run so far
    command,        \* process.argv[2]: "build" or "init"
    workflowText,   \* .github/workflows/design-syncs.yml (undefined: no file)
    packageJson     \* JSON.parse of package.json (undefined: no file)

vars == <<fsDirs, fsFiles, tokenDoc, platformArg, pc, exitCode, stderr,
          tokens, componentKey, sharedKeys, basePrimitives, brandNames,
          brandIdx, emit, started, fileText, env, runs, command,
          workflowText, packageJson>>

\* What only the build of part_000 reads and writes.
legacyVars == <<fileText, env, runs>>

\* The command, and what only the init command reads and writes.
cliVars == <<command, workflowText, packageJson>>

\* path.join(tokenDir, 'design-tokens.json')
TokenFile ==
    [dir |-> "tokens",
     name |-> <<"d", "e", "s", "i", "g", "n", "-", "t", "o", "k", "e", "n",
                "s", ".", "j", "s", "o", "n">>]

OutputDirs == {"src", "src/styles", "tokens/android", "tokens/ios", "tokens/flutter"}

\* ------------------------------------------------------------------------
\* Inputs: token documents and platform arguments
\* ------------------------------------------------------------------------

MaxBrands == 2
MaxTopKeys == 2

BrandName(i) ==
    CASE i = 1 -> <<"a", "c", "m", "e">>
      [] i = 2 -> <<"7">>
      [] OTHER -> <<"b">> \o NumToStr(i)

BrandTree == JObj(<< <<(<<"c", "o", "l", "o", "r">>), JStr(<<"{", "r", "e", "d", "}">>)>> >>)

ComponentGroup(n) == JObj([i \in 1..n |-> <<BrandName(i), BrandTree>>])

PrimitiveGroup == JObj(<< <<(<<"r", "e", "d">>), JStr(<<"#", "f", "0", "0">>)>> >>)

ModeGroup == JObj(<< <<(<<"M", "o", "d", "e", " ", "1">>), PrimitiveGroup>> >>)

K_palette == <<"p", "a", "l", "e", "t", "t", "e">>
K_themes == <<"t", "h", "e", "m", "e", "s">>
K_meta == <<"$", "m", "e", "t", "a">>
K_brands == <<"b", "r", "a", "n", "d", "s">>

KeyNames ==
    {<<"p", "r", "i", "m", "i", "t", "i", "v", "e", "s">>, K_brands,
     K_palette, K_themes,
     <<"c", "o", "r", "e", "-", "t", "o", "k", "e", "n", "s">>,
     <<>>, <<"7">>, K_meta}

KeySeqs(n) ==
    {ks \in [1..n -> KeyNames] : \A i, j \in 1..n : i # j => ks[i] # ks[j]}

\* Documents of up to MaxTopKeys groups under every choice and order of names.
DocsByName ==
    {JObj([i \in DOMAIN ks |-> <<ks[i], ComponentGroup(1)>>]) :
        ks \in UNION {KeySeqs(n) : n \in 0..MaxTopKeys}}

\* {"acme": {...}, "Acme": {...}}: two brands whose names differ in case
SameSlugBrands ==
    Obj2(BrandName(1), BrandTree, <<"A", "c", "m", "e">>, BrandTree)

ComponentShapes ==
    {ComponentGroup(n) : n \in 0..MaxBrands}
        \cup {SameSlugBrands}
        \cup {Null, JStr(<<"o", "o", "p", "s">>), JNum(0), JBool(TRUE),
              JObj(<< <<S_value, JStr(<<"o", "o", "p", "s">>)>> >>)}

\* {"Mode 1": group}
ModeOf(group) == JObj(<< <<(<<"M", "o", "d", "e", " ", "1">>), group>> >>)

\* {"opacity": 0}: a token whose value is falsy
FalsyGroup == JObj(<< <<<<"o", "p", "a", "c", "i", "t", "y">>, JNum(0)>> >>)

\* {"color": {"red": "#f00"}}: tokens inside a nested group
NestedGroup == JObj(<< <<<<"c", "o", "l", "o", "r">>, PrimitiveGroup>> >>)

\* {"red": "#f00", "space": {"sm": 4}}: a token beside a nested group
MixedGroup ==
    JObj(<< <<<<"r", "e", "d">>, JStr(<<"#", "f", "0", "0">>)>>,
            <<<<"s", "p", "a", "c", "e">>, JObj(<< <<<<"s", "m">>, JNum(4)>> >>)>> >>)

\* {"$description": "x", "Mode 1": {"red": "#f00"}}: a mode layer after a
\* metadata member
DescribedModeGroup ==
    Obj2(<<"$", "d", "e", "s", "c", "r", "i", "p", "t", "i", "o", "n">>, JStr(<<"x">>),
         <<"M", "o", "d", "e", " ", "1">>, PrimitiveGroup)

PrimitiveShapes ==
    {PrimitiveGroup, ModeGroup, DescribedModeGroup, JObj(<<>>), Null,
     JObj(<< <<(<<"r", "e", "d">>), Null>> >>), JStr(<<"v", "1">>),
     FalsyGroup, ModeOf(FalsyGroup), NestedGroup, ModeOf(NestedGroup),
     MixedGroup, ModeOf(MixedGroup)}

\* Documents of two neutrally named groups under every shape of value.
DocsByShape ==
    {JObj(<< <<K_palette, p>>, <<K_themes, c>> >>) :
        p \in PrimitiveShapes, c \in ComponentShapes}

\* Documents with a metadata member.
DocsWithMetadata ==
    {JObj(<< <<K_meta, JStr(<<"v", "1">>)>>, <<K_brands, ComponentGroup(1)>> >>),
     JObj(<< <<K_palette, PrimitiveGroup>>, <<K_meta, JStr(<<"v", "1">>)>> >>)}

K_CoreComponent ==
    <<"C", "o", "r", "e", "C", "o", "m", "p", "o", "n", "e", "n", "t">>
K_core_component ==
    <<"c", "o", "r", "e", "-", "c", "o", "m", "p", "o", "n", "e", "n", "t">>

\* Documents of three groups.
Doc3(k1, v1, k2, v2, k3, v3) == JObj(<< <<k1, v1>>, <<k2, v2>>, <<k3, v3>> >>)

\* Documents whose last group has a primitive-like name that also contains
\* "Component" or "component".
DocsByExplicitName ==
    {Doc3(K_palette, PrimitiveGroup, K_themes, ComponentGroup(1), k, ComponentGroup(2)) :
        k \in {K_CoreComponent, K_core_component}}
      \cup {Obj2(K_CoreComponent, ComponentGroup(1), K_palette, PrimitiveGroup)}

K_tints == <<"t", "i", "n", "t", "s">>

\* {"blue": "#00f"} and {"red": "#00f"}
BlueGroup == Obj1(<<"b", "l", "u", "e">>, JStr(<<"#", "0", "0", "f">>))
OtherRedGroup == Obj1(<<"r", "e", "d">>, JStr(<<"#", "0", "0", "f">>))

\* Documents of two primitive groups and a group of brands: the second
\* primitive group adds a token, redefines one, or adds a token to a nested
\* group of the first.
DocsOfTwoPrimitiveGroups ==
    {Doc3(K_palette, g[1], K_tints, g[2], K_brands, ComponentGroup(1)) :
        g \in {<<PrimitiveGroup, BlueGroup>>,
               <<PrimitiveGroup, OtherRedGroup>>,
               <<ModeGroup, ModeOf(OtherRedGroup)>>,
               <<ModeOf(NestedGroup), ModeOf(Obj1(<<"c", "o", "l", "o", "r">>, BlueGroup))>>}}

\* A document with a member named __proto__ between its two groups.
DocsWithProto ==
    {Doc3(K_palette, PrimitiveGroup, S_proto, ComponentGroup(1),
          K_themes, ComponentGroup(1))}

\* Documents that are not objects: null, a string, a number.
DocsNotObjects == {Null, JStr(<<"a", "b", "c">>), JNum(5)}

Docs ==
    DocsByName \cup DocsByShape \cup DocsWithMetadata \cup DocsByExplicitName
        \cup DocsOfTwoPrimitiveGroups \cup DocsWithProto \cup DocsNotObjects

Targets ==
    {<<>>, S_web, <<"W", "E", "B">>, S_android, S_ios, S_flutter, S_all,
     <<"A", "l", "l">>, S_css, S_ts, S_constructor, S_proto,
     <<"d", "e", "s", "k", "t", "o", "p">>}

\* ------------------------------------------------------------------------
\* The init command
\* ------------------------------------------------------------------------

S_scripts == <<"s", "c", "r", "i", "p", "t", "s">>
S_tokens == <<"t", "o", "k", "e", "n", "s">>
L_build == <<"o", "r", "c", "h", "e", "s", "t", "r", "a", "-", "c", "l", "i", " ", "b", "u", "i", "l", "d", " ">>
L_webPattern == <<"s", "r", "c", "/", "s", "t", "y", "l", "e", "s", "/", "*", ".", "c", "s", "s", " ", "s", "r", "c", "/", "s", "t", "y", "l", "e", "s", "/", "*", ".", "t", "s">>
L_androidPattern == <<"t", "o", "k", "e", "n", "s", "/", "a", "n", "d", "r", "o", "i", "d", "/", "*", ".", "x", "m", "l">>
L_legacyAndroidPattern == <<"t", "o", "k", "e", "n", "s", "/", "a", "n", "d", "r", "o", "i", "d", "/", "*", ".", "k", "t">>
L_iosPattern == <<"t", "o", "k", "e", "n", "s", "/", "i", "o", "s", "/", "*", ".", "s", "w", "i", "f", "t">>
L_flutterPattern == <<"t", "o", "k", "e", "n", "s", "/", "f", "l", "u", "t", "t", "e", "r", "/", "*", ".", "d", "a", "r", "t">>

\* path.join(cwd, '.github', 'workflows', 'design-syncs.yml')
WorkflowFile ==
    [dir |-> ".github/workflows",
     name |-> <<"d", "e", "s", "i", "g", "n", "-", "s", "y", "n", "c", "s", ".", "y", "m", "l">>]

\* path.join(cwd, 'package.json')
PackageFile == [dir |-> ".", name |-> <<"p", "a", "c", "k", "a", "g", "e", ".", "j", "s", "o", "n">>]

\* ensureDir(path.dirname(workflowPath))
WorkflowDirs == {".github", ".github/workflows"}

\* A package.json that JSON.parse rejects
Unparsable == [t |-> "unparsable"]

\* const target = platformArg || 'all'
initTargetOf(arg) == IF arg = <<>> THEN S_all ELSE arg

\* getWorkflowContent(platform): the text differs from one platform to
\* another in its file_pattern only, and is written as that pattern.
getWorkflowContent(platform) ==
    LET p == toLowerCase(IF platform = <<>> THEN S_all ELSE platform)
        patterns ==
            (IF p = S_web \/ p = S_all THEN <<L_webPattern>> ELSE <<>>)
                \o (IF p = S_android \/ p = S_all THEN <<L_androidPattern>> ELSE <<>>)
                \o (IF p = S_ios \/ p = S_all THEN <<L_iosPattern>> ELSE <<>>)
                \o (IF p = S_flutter \/ p = S_all THEN <<L_flutterPattern>> ELSE <<>>)
    IN Join(patterns, <<" ">>)

\* const WORKFLOW_CONTENT of part_000, written as its file_pattern
WORKFLOW_CONTENT ==
    Join(<<L_webPattern, L_legacyAndroidPattern, L_iosPattern, L_flutterPattern>>,
         <<" ">>)

\* JSON.parse(JSON.stringify(v)): the members come back in Object.keys
\* order.
RECURSIVE Reparsed(_)
Reparsed(v) ==
    IF v.t # "object" THEN v
    ELSE LET ks == ObjectKeys(v)
         IN JObj([i \in DOMAIN ks |-> <<ks[i], Reparsed(Get(v, ks[i]))>>])

\* Step 2 of runInit on the package.json pkgFile: [pkg, err], the file
\* afterwards and what was reported.  An exception inside the try (the
\* text does not parse, pkg is null, pkg or pkg.scripts is a primitive
\* value that cannot take a member) is caught and reported.  bin/index.js
\* always sets the script (overwrite); part_000 keeps a truthy one.
addTokensScript(pkgFile, target, overwrite) ==
    LET failed == [pkg |-> pkgFile,
                   err |-> <<"error: failed to parse package.json">>]
    IN IF pkgFile = Undefined
       THEN [pkg |-> pkgFile, err |-> <<"warn: no package.json found">>]
       ELSE IF pkgFile.t # "object" THEN failed
       ELSE LET pkg == IF ~Truthy(Get(pkgFile, S_scripts))
                       THEN SetKey(pkgFile, S_scripts, JObj(<<>>))
                       ELSE pkgFile
                scripts == Get(pkg, S_scripts)
            IN IF ~overwrite /\ Truthy(Get(scripts, S_tokens))
               THEN [pkg |-> pkgFile, err |-> <<>>]
               ELSE IF scripts.t # "object" THEN failed
               ELSE [pkg |-> Reparsed(SetKey(pkg, S_scripts,
                                SetKey(scripts, S_tokens, JStr(L_build \o target)))),
                     err |-> <<>>]

\* The token document next to which init runs.
DocOfInit == CHOOSE d \in DocsByName : TRUE

\* A workflow written before, by hand.
ExistingWorkflows == {Undefined, JStr(<<"*">>)}

\* package.json: absent, not JSON, without scripts, with a tokens script,
\* with scripts that are not an object, with an integer-like member.
PackageFiles ==
    {Undefined, Unparsable, Null,
     Obj1(S_name, JStr(<<"a", "p", "p">>)),
     Obj1(S_scripts, Obj1(S_tokens, JStr(<<"t", "s", "c">>))),
     Obj1(S_scripts, JStr(<<"x">>)),
     Obj2(S_name, JStr(<<"a", "p", "p">>), <<"2">>, JBool(TRUE))}

WorkflowDirsOf(text) == IF text = Undefined THEN {} ELSE WorkflowDirs
InitFilesOf(text, pkgFile) ==
    (IF text = Undefined THEN {} ELSE {WorkflowFile})
        \cup (IF pkgFile = Undefined THEN {} ELSE {PackageFile})

\* ------------------------------------------------------------------------
\* bin/index.js: runBuild as a state machine
\* ------------------------------------------------------------------------

\* No theme file on disk; no environment override.
NoText == [f \in {} |-> <<>>]
NoEnv == [primitive |-> Undefined, component |-> Undefined]

Init ==
    /\ platformArg \in Targets
    /\ \/ /\ command = "build"
          /\ workflowText = Undefined
          /\ packageJson = Undefined
          /\ \E f \in {<<{}, {}, Undefined>>, <<{"tokens"}, {}, Undefined>>}
                          \cup {<<{"tokens"}, {TokenFile}, d>> : d \in Docs} :
                /\ fsDirs = f[1]
                /\ fsFiles = f[2]
                /\ tokenDoc = f[3]
       \/ /\ command = "init"
          /\ workflowText \in ExistingWorkflows
          /\ packageJson \in PackageFiles
          /\ \E f \in {<<{}, {}, Undefined>>,
                        <<{"tokens"}, {TokenFile}, DocOfInit>>} :
                /\ fsDirs = f[1] \cup WorkflowDirsOf(workflowText)
                /\ fsFiles = f[2] \cup InitFilesOf(workflowText, packageJson)
                /\ tokenDoc = f[3]
    /\ pc = "start"
    /\ exitCode = -1
    /\ stderr = <<>>
    /\ tokens = Undefined
    /\ componentKey = Undefined
    /\ sharedKeys = <<>>
    /\ basePrimitives = Undefined
    /\ brandNames = <<>>
    /\ brandIdx = 0
    /\ emit = <<>>
    /\ started = <<>>
    /\ fileText = NoText
    /\ env = NoEnv
    /\ runs = 0

\* The existence check left out.
tokenFileNotChecked(files) == TRUE

\* fs.existsSync(tokenFile)
tokenFileExists(files) == TokenFile \in files

\* Promise.race in place of Promise.all: settled by the first platform.
promiseRace(statuses, items) ==
    IF \E i \in DOMAIN items : statuses[items[i]] = "failed" THEN "rejected"
    ELSE IF \E i \in DOMAIN items : statuses[items[i]] = "done" THEN "fulfilled"
    ELSE "pending"

\* Promise.allSettled in place of Promise.all: a rejection is swallowed.
promiseAllSettled(statuses, items) ==
    IF \A i \in DOMAIN items : statuses[items[i]] \in {"done", "failed"}
    THEN "fulfilled"
    ELSE "pending"

\* The promise of Promise.all over the platforms of one brand.
promiseAll(statuses, items) ==
    IF \E i \in DOMAIN items : statuses[items[i]] = "failed" THEN "rejected"
    ELSE IF \A i \in DOMAIN items : statuses[items[i]] = "done" THEN "fulfilled"
    ELSE "pending"

Outcome(pcv, code, err, dirs, idx, em, st) ==
    [pc |-> pcv, exitCode |-> code, stderr |-> err, dirs |-> dirs,
     brandIdx |-> idx, emit |-> em, started |-> st]

\* for (const brand of brandNames) { ... }: the loop from brand i up to the
\* next await, an uncaught exception or the end of runBuild.
RECURSIVE brandLoop(_, _, _, _, _, _, _)
brandLoop(i, names, target, dirs, err, em, st) ==
    IF i > Len(names) THEN Outcome("exited", 0, err, dirs, i, em, st)
    ELSE
      LET p == platformsToBuild(target)
          err1 == IF lengthIsZero(p) THEN Append(err, "warn: unknown platform") ELSE err
          st1 == Append(st, names[i])
      IN IF p.kind # "array"
         THEN \* platformsToBuild.forEach is not a function
              Outcome("exited", 1, Append(err1, "error: forEach is not a function"), dirs, i, em, st1)
         ELSE LET dirs1 == ensureDirs(dirs, p.items) IN
              IF p.items # <<>>
              THEN Outcome("await", -1, err1, dirs1, i,
                           [em EXCEPT ![i] =
                               [q \in PlatformSet |->
                                   IF \E j \in DOMAIN p.items : p.items[j] = q
                                   THEN "running" ELSE "idle"]],
                           st1)
              ELSE brandLoop(i + 1, names, target, dirs1, err1, em, st1)

Apply(o) ==
    /\ pc' = o.pc
    /\ exitCode' = o.exitCode
    /\ stderr' = o.stderr
    /\ fsDirs' = o.dirs
    /\ brandIdx' = o.brandIdx
    /\ emit' = o.emit
    /\ started' = o.started

Exit1(message) ==
    Outcome("exited", 1, Append(stderr, message), fsDirs, brandIdx, emit, started)

\* runBuild from its first line to its first await (or to the exit).
Start ==
    /\ command = "build"
    /\ pc = "start"
    /\ LET toks == normalizeTokens(tokenDoc)
           keys == ObjectKeys(toks)
           ck == findComponentKey(keys)
           shared == findSharedKeys(keys, ck)
           group == Get(toks, ck.s)
           agg == aggregatePrimitives(toks, shared, JObj(<<>>))
           names == ObjectKeys(group)
       IN IF ~tokenFileExists(fsFiles)
          THEN /\ Apply(Exit1("error: design-tokens.json not found"))
               /\ UNCHANGED <<tokens, componentKey, sharedKeys, basePrimitives, brandNames>>
          ELSE IF toks.t = "null"
          THEN \* Object.keys(tokens) throws; main's catch reports it
               /\ Apply(Exit1("error: cannot read the keys of the document"))
               /\ tokens' = toks
               /\ UNCHANGED <<componentKey, sharedKeys, basePrimitives, brandNames>>
          ELSE IF ~Truthy(ck)
          THEN /\ Apply(Exit1("error: could not identify component tokens"))
               /\ tokens' = toks
               /\ componentKey' = ck
               /\ UNCHANGED <<sharedKeys, basePrimitives, brandNames>>
          ELSE IF notAnObject(group)
          THEN /\ Apply(Exit1("error: component group is empty or not an object"))
               /\ tokens' = toks
               /\ componentKey' = ck
               /\ sharedKeys' = shared
               /\ UNCHANGED <<basePrimitives, brandNames>>
          ELSE IF agg.threw
          THEN /\ Apply(Exit1("error: cannot read the primitive groups"))
               /\ tokens' = toks
               /\ componentKey' = ck
               /\ sharedKeys' = shared
               /\ UNCHANGED <<basePrimitives, brandNames>>
          ELSE /\ tokens' = toks
               /\ componentKey' = ck
               /\ sharedKeys' = shared
               /\ basePrimitives' = agg.prims
               /\ brandNames' = names
               /\ Apply(brandLoop(1, names, targetOf(platformArg), fsDirs, stderr,
                                  [i \in DOMAIN names |-> [q \in PlatformSet |-> "idle"]],
                                  started))
    /\ UNCHANGED <<fsFiles, tokenDoc, platformArg>>
    /\ UNCHANGED legacyVars
    /\ UNCHANGED cliVars

\* sd.buildPlatform(p) of the current brand resolves: its file is on disk.
\* When that fulfils Promise.all, runBuild goes on with the next brand.
EmitterResolves(p) ==
    /\ pc = "await"
    /\ emit[brandIdx][p] = "running"
    /\ LET em == [emit EXCEPT ![brandIdx][p] = "done"]
           items == platformsToBuild(targetOf(platformArg)).items
           dirs == fsDirs \cup WithParents(buildPath(p))
       IN /\ fsFiles' = fsFiles \cup {OutputFile(brandNames[brandIdx], p)}
          /\ IF promiseAll(em[brandIdx], items) = "fulfilled"
             THEN Apply(brandLoop(brandIdx + 1, brandNames, targetOf(platformArg),
                                  dirs, stderr, em, started))
             ELSE Apply(Outcome(pc, exitCode, stderr, dirs, brandIdx, em, started))
    /\ UNCHANGED <<tokenDoc, platformArg, tokens, componentKey, sharedKeys,
                   basePrimitives, brandNames>>
    /\ UNCHANGED legacyVars
    /\ UNCHANGED cliVars

\* sd.buildPlatform(p) of the current brand rejects: Promise.all rejects,
\* runBuild rejects and main's catch reports the error and exits 1.
EmitterRejects(p) ==
    /\ pc = "await"
    /\ emit[brandIdx][p] = "running"
    /\ LET em == [emit EXCEPT ![brandIdx][p] = "failed"]
           items == platformsToBuild(targetOf(platformArg)).items
       IN IF promiseAll(em[brandIdx], items) = "rejected"
          THEN Apply(Outcome("exited", 1, Append(stderr, "error: platform rejected"),
                             fsDirs, brandIdx, em, started))
          ELSE IF promiseAll(em[brandIdx], items) = "fulfilled"
          THEN Apply(brandLoop(brandIdx + 1, brandNames, targetOf(platformArg),
                               fsDirs, stderr, em, started))
          ELSE Apply(Outcome(pc, exitCode, stderr, fsDirs, brandIdx, em, started))
    /\ UNCHANGED <<fsFiles, tokenDoc, platformArg, tokens, componentKey,
                   sharedKeys, basePrimitives, brandNames>>
    /\ UNCHANGED legacyVars
    /\ UNCHANGED cliVars

\* One `orchestra-cli init [platform]`, from start to exit: the workflow
\* is written anew, the tokens script of an existing package.json is set.
RunInit ==
    /\ command = "init"
    /\ pc = "start"
    /\ LET target == initTargetOf(platformArg)
           r == addTokensScript(packageJson, target, TRUE)
       IN /\ workflowText' = JStr(getWorkflowContent(target))
          /\ packageJson' = r.pkg
          /\ stderr' = stderr \o r.err
    /\ fsDirs' = fsDirs \cup WorkflowDirs
    /\ fsFiles' = fsFiles \cup {WorkflowFile}
    /\ pc' = "exited"
    /\ exitCode' = 0
    /\ UNCHANGED <<tokenDoc, platformArg, tokens, componentKey, sharedKeys,
                   basePrimitives, brandNames, brandIdx, emit, started,
                   command>>
    /\ UNCHANGED legacyVars

Next ==
    \/ Start
    \/ RunInit
    \/ \E p \in PlatformSet : EmitterResolves(p)
    \/ \E p \in PlatformSet : EmitterRejects(p)

Spec == Init /\ [][Next]_vars

\* ------------------------------------------------------------------------
\* bin/index.js: normalizeTokens applied to a tree, and to its own result
\* ------------------------------------------------------------------------

\* Raw values of a token document.
RawValues ==
    {JStr(<<"#", "f", "f", "f">>), JStr(<<"{", "a", "/", "b", "}">>), JStr(<<"{", "a", "/", "b", "}", " ", "a", "n", "d", " ", "{", "c", "/", "d", "}">>),
     JStr(<<"{", "a", "/", "b">>), JStr(<<"a", "/", "{", "}", "{", "b", "/", "c", "}">>), JStr(<<"{", "{", "a", "/", "b", "}", "}">>), JStr(<<>>),
     JNum(0), JNum(4), JBool(FALSE), Null}

\* Objects that carry a value marker.
MarkedValues ==
    {Obj1(S_value, v) : v \in RawValues}
        \cup {Obj1(S_dvalue, v) : v \in RawValues}
        \cup {Obj2(S_value, JNum(0), S_dvalue, JStr(<<"{", "x", "/", "y", "}">>)),
              Obj2(S_dvalue, JStr(<<"{", "x", "/", "y", "}">>), S_value, JStr(<<"#", "f", "f", "f">>)),
              Obj2(<<"$", "t", "y", "p", "e">>, JStr(<<"c", "o", "l", "o", "r">>), S_value, JStr(<<"{", "a", "/", "b", "/", "c", "}">>)),
              Obj1(S_value, Obj1(<<"b">>, JStr(<<"{", "x", "/", "y", "}">>)))}

MemberNames == {<<"a">>, <<"7">>, S_value, S_dvalue, K_meta, S_proto}

\* A member under every name, alone, beside another member, and one group
\* further down.
SmallTrees ==
    {Obj1(k, v) : k \in MemberNames, v \in RawValues \cup MarkedValues}

NormalizeInputs ==
    RawValues \cup SmallTrees
        \cup {Obj2(<<"b">>, t, <<"7">>, JStr(<<"{", "p", "/", "q", "}">>)) : t \in MarkedValues}
        \cup {Obj1(<<"g">>, t) : t \in SmallTrees}

InitNormalize ==
    /\ tokenDoc \in NormalizeInputs
    /\ pc = "start"
    /\ tokens = Undefined
    /\ platformArg = <<>>
    /\ fsDirs = {"tokens"}
    /\ fsFiles = {TokenFile}
    /\ exitCode = -1
    /\ stderr = <<>>
    /\ componentKey = Undefined
    /\ sharedKeys = <<>>
    /\ basePrimitives = Undefined
    /\ brandNames = <<>>
    /\ brandIdx = 0
    /\ emit = <<>>
    /\ started = <<>>
    /\ fileText = NoText
    /\ env = NoEnv
    /\ runs = 0
    /\ command = "build"
    /\ workflowText = Undefined
    /\ packageJson = Undefined

\* const tokens = normalizeTokens(rawTokens)
Normalize ==
    /\ pc = "start"
    /\ tokens' = normalizeTokens(tokenDoc)
    /\ pc' = "normalized"
    /\ UNCHANGED <<fsDirs, fsFiles, tokenDoc, platformArg, exitCode, stderr,
                   componentKey, sharedKeys, basePrimitives, brandNames,
                   brandIdx, emit, started>>
    /\ UNCHANGED legacyVars
    /\ UNCHANGED cliVars

\* normalizeTokens applied to the tree it returned
NormalizeAgain ==
    /\ pc = "normalized"
    /\ tokens' = normalizeTokens(tokens)
    /\ pc' = "renormalized"
    /\ UNCHANGED <<fsDirs, fsFiles, tokenDoc, platformArg, exitCode, stderr,
                   componentKey, sharedKeys, basePrimitives, brandNames,
                   brandIdx, emit, started>>
    /\ UNCHANGED legacyVars
    /\ UNCHANGED cliVars

NextNormalize == Normalize \/ NormalizeAgain

SpecNormalize == InitNormalize /\ [][NextNormalize]_vars

\* ------------------------------------------------------------------------
\* unnamed/part_000: helpers
\* ------------------------------------------------------------------------

\* The grave accent (code 96), which a TLA+ string cannot hold.
Backtick == "grave"

\* The printable ASCII characters in code-unit order, from the space (32).
Ascii ==
    <<" ", "!", "\"", "#", "$", "%", "&", "'", "(", ")", "*", "+", ",", "-",
      ".", "/", "0", "1", "2", "3", "4", "5", "6", "7", "8", "9", ":", ";",
      "<", "=", ">", "?", "@", "A", "B", "C", "D", "E", "F", "G", "H", "I",
      "J", "K", "L", "M", "N", "O", "P", "Q", "R", "S", "T", "U", "V", "W",
      "X", "Y", "Z", "[", "\\", "]", "^", "_", Backtick, "a", "b", "c", "d", "e",
      "f", "g", "h", "i", "j", "k", "l", "m", "n", "o", "p", "q", "r", "s",
      "t", "u", "v", "w", "x", "y", "z", "{", "|", "}", "~">>

\* String.prototype.charCodeAt for a line feed, a tab or a printable.
CharCode(c) ==
    CASE c = "\n" -> 10
      [] c = "\t" -> 9
      [] OTHER -> IndexOf(Ascii, c) + 31

\* a < b as Array.prototype.sort() compares two strings: code unit by code
\* unit, a proper prefix first.
RECURSIVE StringLess(_, _)
StringLess(a, b) ==
    IF b = <<>> THEN FALSE
    ELSE IF a = <<>> THEN TRUE
    ELSE IF Head(a) = Head(b) THEN StringLess(Tail(a), Tail(b))
    ELSE CharCode(Head(a)) < CharCode(Head(b))

\* Object.keys(o).sort()
RECURSIVE SortStrings(_)
SortStrings(ks) ==
    IF ks = {} THEN <<>>
    ELSE LET m == CHOOSE k \in ks : \A l \in ks \ {k} : StringLess(k, l)
         IN <<m>> \o SortStrings(ks \ {m})

\* `${v}` for a string, a number, a boolean, a native function and a plain
\* object
TemplateText(v) ==
    CASE v.t = "string" -> v.s
      [] v.t = "number" -> NumToStr(v.n)
      [] v.t = "boolean" ->
            IF v.b THEN <<"t", "r", "u", "e">> ELSE <<"f", "a", "l", "s", "e">>
      [] v.t = "null" -> <<"n", "u", "l", "l">>
      [] v.t = "function" -> v.s
      [] v.t = "object" ->
            IF IsBuiltin(v) /\ v.builtin = "String" THEN <<>>
            ELSE IF IsBuiltin(v) /\ v.builtin = "Number" THEN <<"0">>
            ELSE IF IsBuiltin(v) /\ v.builtin = "Boolean" THEN <<"f", "a", "l", "s", "e">>
            ELSE <<"[", "o", "b", "j", "e", "c", "t", " ", "O", "b", "j", "e", "c", "t", "]">>
      [] OTHER -> <<"u", "n", "d", "e", "f", "i", "n", "e", "d">>

\* str.split(/[^a-zA-Z0-9]+/).filter(Boolean): the maximal alphanumeric
\* runs of str, cur being the run under construction.
RECURSIVE AlnumParts(_, _)
AlnumParts(s, cur) ==
    LET done == IF cur = <<>> THEN <<>> ELSE <<cur>> IN
    IF s = <<>> THEN done
    ELSE IF IsAlnum(Head(s)) THEN AlnumParts(Tail(s), Append(cur, Head(s)))
    ELSE done \o AlnumParts(Tail(s), <<>>)

\* p.charAt(0).toUpperCase() + p.slice(1).toLowerCase()
Capitalize(p) == <<toUpperCaseChar(p[1])>> \o toLowerCase(Tail(p))

\* part_000's toCamelCase: the first part in lower case, the others
\* capitalised.
toCamelCaseParts(str) ==
    LET parts == AlnumParts(str, <<>>) IN
    IF parts = <<>> THEN <<>>
    ELSE toLowerCase(parts[1])
             \o Concat([i \in 1..(Len(parts) - 1) |-> Capitalize(parts[i + 1])])

\* .replace(/([a-z0-9])([A-Z])/g, '$1_$2')
RECURSIVE UnderscoreCamelHumps(_)
UnderscoreCamelHumps(s) ==
    IF Len(s) < 2 THEN s
    ELSE IF IsLowerAlnum(s[1]) /\ s[2] \in UpperSet
         THEN <<s[1], "_", s[2]>> \o UnderscoreCamelHumps(SubSeq(s, 3, Len(s)))
         ELSE <<s[1]>> \o UnderscoreCamelHumps(Tail(s))

\* .replace(/[^a-zA-Z0-9]+/g, '_')
RECURSIVE UnderscoreNonAlnum(_)
UnderscoreNonAlnum(s) ==
    IF s = <<>> THEN <<>>
    ELSE IF IsAlnum(Head(s)) THEN <<Head(s)>> \o UnderscoreNonAlnum(Tail(s))
         ELSE <<"_">> \o UnderscoreNonAlnum(SubSeq(s, NonAlnumRun(s) + 1, Len(s)))

\* .replace(/_{2,}/g, '_')
RECURSIVE CollapseUnderscores(_)
CollapseUnderscores(s) ==
    IF Len(s) < 2 THEN s
    ELSE IF s[1] = "_" /\ s[2] = "_" THEN CollapseUnderscores(Tail(s))
         ELSE <<s[1]>> \o CollapseUnderscores(Tail(s))

\* .replace(/^_+|_+$/g, '')
RECURSIVE TrimUnderscores(_)
TrimUnderscores(s) ==
    IF s # <<>> /\ s[1] = "_" THEN TrimUnderscores(Tail(s))
    ELSE IF s # <<>> /\ s[Len(s)] = "_"
         THEN TrimUnderscores(SubSeq(s, 1, Len(s) - 1))
         ELSE s

toSnakeCase(str) ==
    toLowerCase(TrimUnderscores(CollapseUnderscores(
        UnderscoreNonAlnum(UnderscoreCamelHumps(str)))))

toUpperSnakeCase(str) == toUpperCase(toSnakeCase(str))

\* value && typeof value === 'object' && !Array.isArray(value)
isPlainObject(value) == value.t = "object"

\* flattenToMap(obj, prefix, out) over the keys ks of obj still to visit;
\* a member named like a path already in out replaces it in place.
RECURSIVE flattenKeys(_, _, _, _)
flattenKeys(obj, ks, prefix, out) ==
    IF ks = <<>> THEN out
    ELSE LET key == Head(ks)
             value == Get(obj, key)
             nextKey == IF prefix # <<>> THEN prefix \o <<"/">> \o key ELSE key
             out1 == IF isPlainObject(value)
                     THEN flattenKeys(value, ObjectKeys(value), nextKey, out)
                     ELSE SetKey(out, nextKey, value)
         IN flattenKeys(obj, Tail(ks), prefix, out1)

\* flattenToMap(obj): Object.keys(obj) throws on null and undefined.
flattenToMap(obj) ==
    IF obj.t \in {"null", "undefined"}
    THEN [threw |-> TRUE, map |-> JObj(<<>>)]
    ELSE [threw |-> FALSE,
          map |-> flattenKeys(obj, ObjectKeys(obj), <<>>, JObj(<<>>))]

\* raw.match(/^\\{([^}]+)\\}$/): in the source the backslashes are doubled,
\* so the expression asks for a backslash before each brace: \{key\} with
\* a key that has no closing brace in it.
aliasMatch(raw) ==
    LET n == Len(raw) IN
    IF /\ n >= 5
       /\ raw[1] = "\\" /\ raw[2] = "{"
       /\ raw[n - 1] = "\\" /\ raw[n] = "}"
       /\ \A i \in 3..(n - 2) : raw[i] # "}"
    THEN [ok |-> TRUE, key |-> SubSeq(raw, 3, n - 2)]
    ELSE [ok |-> FALSE, key |-> <<>>]

\* primitiveMap[key]
Lookup(primitiveMap, key) == Get(primitiveMap, key)

\* primitiveMap[key] ?? raw
resolveAlias(raw, primitiveMap) ==
    IF raw.t # "string" THEN raw
    ELSE LET match == aliasMatch(raw.s) IN
         IF ~match.ok THEN raw
         ELSE LET hit == Lookup(primitiveMap, match.key) IN
              IF hit.t \in {"null", "undefined"} THEN raw ELSE hit

\* walk(node, pathParts) inside runBuild: the tokens of one brand, in the
\* order of the traversal.
RECURSIVE walk(_, _, _, _)
RECURSIVE walkKeys(_, _, _, _, _)
walk(node, pathParts, brandKey, primitiveMap) ==
    IF isPlainObject(node)
    THEN walkKeys(node, ObjectKeys(node), pathParts, brandKey, primitiveMap)
    ELSE LET resolved == resolveAlias(node, primitiveMap)
             logicalName == Join(pathParts, <<"-">>)
         IN IF resolved.t \in {"null", "undefined"} THEN <<>>
            ELSE << [brandKey |-> brandKey,
                     logicalName |-> logicalName,
                     cssVar |-> toKebabCase(brandKey) \o <<"-">>
                                    \o toKebabCase(logicalName),
                     tsName |-> toCamelCaseParts(brandKey \o <<"-">> \o logicalName),
                     value |-> resolved] >>

walkKeys(node, ks, pathParts, brandKey, primitiveMap) ==
    IF ks = <<>> THEN <<>>
    ELSE walk(Get(node, Head(ks)), Append(pathParts, Head(ks)), brandKey, primitiveMap)
             \o walkKeys(node, Tail(ks), pathParts, brandKey, primitiveMap)

\* String literals of part_000.
L_doc_open ==
    <<"/", "*", "*">>
L_doc_generated ==
    <<" ", "*", " ", "A", "u", "t", "o", "-", "g", "e", "n", "e", "r", "a",
    "t", "e", "d", " ", "f", "r", "o", "m", " ", "t", "o", "k", "e", "n",
    "s", "/", "d", "e", "s", "i", "g", "n", "-", "t", "o", "k", "e", "n",
    "s", ".", "j", "s", "o", "n">>
L_doc_noedit ==
    <<" ", "*", " ", "D", "o", " ", "n", "o", "t", " ", "e", "d", "i", "t",
    " ", "m", "a", "n", "u", "a", "l", "l", "y", ".">>
L_doc_close ==
    <<" ", "*", "/">>
L_generated ==
    <<"/", "/", " ", "A", "u", "t", "o", "-", "g", "e", "n", "e", "r", "a",
    "t", "e", "d", " ", "f", "r", "o", "m", " ", "t", "o", "k", "e", "n",
    "s", "/", "d", "e", "s", "i", "g", "n", "-", "t", "o", "k", "e", "n",
    "s", ".", "j", "s", "o", "n">>
L_noedit ==
    <<"/", "/", " ", "D", "o", " ", "n", "o", "t", " ", "e", "d", "i", "t",
    " ", "m", "a", "n", "u", "a", "l", "l", "y", ".">>
L_package ==
    <<"p", "a", "c", "k", "a", "g", "e", " ", "t", "o", "k", "e", "n", "s">>
L_import ==
    <<"i", "m", "p", "o", "r", "t", " ", "F", "o", "u", "n", "d", "a", "t",
    "i", "o", "n">>
S_export_const ==
    <<"e", "x", "p", "o", "r", "t", " ", "c", "o", "n", "s", "t">>
S_data_theme ==
    <<"[", "d", "a", "t", "a", "-", "t", "h", "e", "m", "e", "=", "\"">>
S_ThemeTokens ==
    <<"T", "h", "e", "m", "e", "T", "o", "k", "e", "n", "s">>

\* ------------------------------------------------------------------------
\* unnamed/part_000: the files on disk and the two readers
\* ------------------------------------------------------------------------

\* lines.join('\\n'): in the source the backslash is doubled, so the lines
\* are joined by a backslash and the letter n, not by a line feed.
LineJoiner == <<"\\", "n">>

\* fs.writeFileSync(file, text)
WriteFile(text, file, content) ==
    [f \in DOMAIN text \cup {file} |-> IF f = file THEN content ELSE text[f]]

At(c, p, ch) == p \in DOMAIN c /\ c[p] = ch

Least(S) == CHOOSE x \in S : \A y \in S : x <= y

\* The last position of the run of characters of the set chars that starts
\* at p (p - 1 when the run is empty): what a greedy [chars]* consumes.
RunOf(chars, c, p) ==
    LET stops == {j \in p..Len(c) : c[j] \notin chars} IN
    IF p > Len(c) THEN p - 1
    ELSE IF stops = {} THEN Len(c)
    ELSE Least(stops) - 1

\* The same for a negated class [^chars]*.
RunUntil(chars, c, p) ==
    LET stops == {j \in p..Len(c) : c[j] \in chars} IN
    IF p > Len(c) THEN p - 1
    ELSE IF stops = {} THEN Len(c)
    ELSE Least(stops) - 1

WhiteSpace == {" ", "\t", "\n", "\r"}

\* String.prototype.trim
RECURSIVE Trim(_)
Trim(s) ==
    IF s # <<>> /\ s[1] \in WhiteSpace THEN Trim(Tail(s))
    ELSE IF s # <<>> /\ s[Len(s)] \in WhiteSpace
         THEN Trim(SubSeq(s, 1, Len(s) - 1))
         ELSE s

\* [a-z0-9\\-] under the i flag: a letter, a digit, a backslash or a dash
CssNameChars == LowerSet \cup UpperSet \cup DigitSet \cup {"\\", "-"}

\* the letter s of \\s* under the i flag
LetterSAnyCase == {"s", "S"}

\* \\s*:\\s*([^;]+); from position q, the character after the name: a
\* backslash, any number of s, a colon, a backslash, any number of s, the
\* value and a semicolon.  The value takes the last s when nothing else is
\* left for it.
cssTail(c, q) ==
    LET colon == RunOf(LetterSAnyCase, c, q + 1) + 1
        lastS == RunOf(LetterSAnyCase, c, colon + 2)
        last == RunUntil({";"}, c, colon + 2)
    IN [ok |-> /\ At(c, q, "\\")
               /\ At(c, colon, ":")
               /\ At(c, colon + 1, "\\")
               /\ last >= colon + 2
               /\ At(c, last + 1, ";"),
        from |-> IF lastS = last THEN last ELSE lastS + 1,
        to |-> last]

NoMatch == [ok |-> FALSE, name |-> <<>>, value |-> <<>>, end |-> 0]

\* /--([a-z0-9\\-]+)\\s*:\\s*([^;]+);/gi matched at position i: the name
\* is the longest run of name characters that leaves a backslash after it.
cssMatchAt(c, i) ==
    IF At(c, i, "-") /\ At(c, i + 1, "-")
    THEN LET e == RunOf(CssNameChars, c, i + 2)
             qs == {q \in (i + 3)..(e + 1) : cssTail(c, q).ok}
         IN IF qs = {} THEN NoMatch
            ELSE LET q == CHOOSE x \in qs : \A y \in qs : y <= x
                     t == cssTail(c, q)
                 IN [ok |-> TRUE,
                     name |-> SubSeq(c, i + 2, q - 1),
                     value |-> Trim(SubSeq(c, t.from, t.to)),
                     end |-> t.to + 1]
    ELSE NoMatch

\* while ((m = regex.exec(content))) vars[m[1]] = m[2].trim();
\* exec looks for the leftmost match at or after lastIndex, here i.
RECURSIVE cssExecAll(_, _, _)
cssExecAll(c, i, found) ==
    LET starts == {j \in i..Len(c) : cssMatchAt(c, j).ok} IN
    IF starts = {} THEN found
    ELSE LET m == cssMatchAt(c, Least(starts)) IN
         cssExecAll(c, m.end + 1, SetKey(found, m.name, JStr(m.value)))

readExistingCssVars(text, cssPath) ==
    IF cssPath \notin DOMAIN text THEN JObj(<<>>)
    ELSE cssExecAll(text[cssPath], 1, JObj(<<>>))

Quotes == {"\"", "'", Backtick}

\* /export const\\s+(\\w+)\\s*=\\s*["'`]([^"'`]+)["'`];/g matched at
\* position i: after "export const", a backslash and one or more s; the
\* name is a backslash and one or more w; then a backslash, any number of
\* s, an equals sign, a backslash, any number of s, and the quoted value.
tsMatchAt(c, i) ==
    LET b1 == i + Len(S_export_const)
        name1 == RunOf({"s"}, c, b1 + 1) + 1
        nameN == RunOf({"w"}, c, name1 + 1)
        equals == RunOf({"s"}, c, nameN + 2) + 1
        open == RunOf({"s"}, c, equals + 2) + 1
        last == RunUntil(Quotes, c, open + 1)
    IN IF /\ At(c, i, "e")
          /\ i + Len(S_export_const) - 1 <= Len(c)
          /\ SubSeq(c, i, i + Len(S_export_const) - 1) = S_export_const
          /\ At(c, b1, "\\")
          /\ name1 >= b1 + 2
          /\ At(c, name1, "\\")
          /\ nameN >= name1 + 1
          /\ At(c, nameN + 1, "\\")
          /\ At(c, equals, "=")
          /\ At(c, equals + 1, "\\")
          /\ open \in DOMAIN c /\ c[open] \in Quotes
          /\ last >= open + 1
          /\ last + 1 \in DOMAIN c /\ c[last + 1] \in Quotes
          /\ At(c, last + 2, ";")
       THEN [ok |-> TRUE,
             name |-> SubSeq(c, name1, nameN),
             value |-> SubSeq(c, open + 1, last),
             end |-> last + 2]
       ELSE NoMatch

\* while ((m = regex.exec(content))) consts[m[1]] = m[2];
RECURSIVE tsExecAll(_, _, _)
tsExecAll(c, i, found) ==
    LET starts == {j \in i..Len(c) : tsMatchAt(c, j).ok} IN
    IF starts = {} THEN found
    ELSE LET m == tsMatchAt(c, Least(starts)) IN
         tsExecAll(c, m.end + 1, SetKey(found, m.name, JStr(m.value)))

readExistingTsConsts(text, tsPath) ==
    IF tsPath \notin DOMAIN text THEN JObj(<<>>)
    ELSE tsExecAll(text[tsPath], 1, JObj(<<>>))

\* ------------------------------------------------------------------------
\* unnamed/part_000: the writers
\* ------------------------------------------------------------------------

DocHeader == <<L_doc_open, L_doc_generated, L_doc_noedit, L_doc_close, <<>>>>
LineHeader == <<L_generated, L_noedit, <<>>>>

StylesDir == "src/styles"

cssPathOf(slug) == [dir |-> StylesDir, name |-> S_theme_dash \o slug \o S_dot_css]
tsPathOf(slug) == [dir |-> StylesDir, name |-> S_theme_dash \o slug \o S_dot_ts]

\* tokens.forEach((t) => { cssVars[t.cssVar] = t.value; })
RECURSIVE assignCssVars(_, _)
assignCssVars(cssVars, toks) ==
    IF toks = <<>> THEN cssVars
    ELSE assignCssVars(SetKey(cssVars, Head(toks).cssVar, Head(toks).value), Tail(toks))

\* tokens.forEach((t) => { tsConsts[t.tsName] = t.value; })
RECURSIVE assignTsConsts(_, _)
assignTsConsts(tsConsts, toks) ==
    IF toks = <<>> THEN tsConsts
    ELSE assignTsConsts(SetKey(tsConsts, Head(toks).tsName, Head(toks).value), Tail(toks))

\* Object.keys(o).sort()
sortedKeys(o) == SortStrings({o.kv[i][1] : i \in DOMAIN o.kv})

\* `  --${name}: ${cssVars[name]};`
cssLine(name, value) ==
    <<" ", " ", "-", "-">> \o name \o <<":", " ">> \o TemplateText(value) \o <<";">>

\* `export const ${name} = "${tsConsts[name]}";`
tsLine(name, value) ==
    S_export_const \o <<" ">> \o name \o <<" ", "=", " ", "\"">>
        \o TemplateText(value) \o <<"\"", ";">>

cssText(slug, cssVars) ==
    LET names == sortedKeys(cssVars) IN
    Join(DocHeader
           \o << S_data_theme \o slug \o <<"\"", "]", " ", "{">> >>
           \o [i \in DOMAIN names |-> cssLine(names[i], Get(cssVars, names[i]))]
           \o << <<"}">>, <<>> >>,
         LineJoiner)

tsText(tsConsts) ==
    LET names == sortedKeys(tsConsts) IN
    Join(DocHeader
           \o [i \in DOMAIN names |-> tsLine(names[i], Get(tsConsts, names[i]))],
         LineJoiner)

Written(dirs, text) == [threw |-> FALSE, dirs |-> dirs, text |-> text]
Thrown(dirs, text) == [threw |-> TRUE, dirs |-> dirs, text |-> text]

\* writeWebThemeFiles(themeName, tokens): what is on disk is read first, the
\* tokens of the build are assigned over it, both files are rewritten.
writeWebThemeFiles(themeName, toks, dirs, text) ==
    LET slug == toKebabCase(themeName)
        cssVars == assignCssVars(readExistingCssVars(text, cssPathOf(slug)), toks)
        tsConsts == assignTsConsts(readExistingTsConsts(text, tsPathOf(slug)), toks)
    IN Written(dirs \cup WithParents(StylesDir),
               WriteFile(WriteFile(text, cssPathOf(slug), cssText(slug, cssVars)),
                         tsPathOf(slug), tsText(tsConsts)))

\* writeAndroidThemeFiles: themeName[0].toUpperCase() throws on the empty
\* name, after ensureDir.
writeAndroidThemeFiles(themeName, toks, dirs, text) ==
    LET outDir == "tokens/android"
        filePath == [dir |-> outDir,
                     name |-> S_theme_us \o toKebabCase(themeName) \o S_dot_kt]
        object == toCamelCaseParts(<<toUpperCaseChar(themeName[1])>> \o Tail(themeName))
        lines == LineHeader
                   \o <<L_package, <<>>,
                        <<"o", "b", "j", "e", "c", "t", " ">> \o object
                            \o S_ThemeTokens \o <<" ", "{">> >>
                   \o [i \in DOMAIN toks |->
                         <<" ", " ", "c", "o", "n", "s", "t", " ", "v", "a", "l", " ">>
                           \o toUpperSnakeCase(toks[i].logicalName)
                           \o <<" ", "=", " ", "\"">> \o TemplateText(toks[i].value)
                           \o <<"\"">>]
                   \o << <<"}">>, <<>> >>
    IN IF themeName = <<>> THEN Thrown(dirs \cup WithParents(outDir), text)
       ELSE Written(dirs \cup WithParents(outDir),
                    WriteFile(text, filePath, Join(lines, LineJoiner)))

\* writeIOSTokenFiles: slug[0].toUpperCase() throws on the empty slug, after
\* ensureDir.
writeIOSTokenFiles(themeName, toks, dirs, text) ==
    LET outDir == "tokens/ios"
        slug == toKebabCase(themeName)
        filePath == [dir |-> outDir,
                     name |-> S_Theme \o <<toUpperCaseChar(slug[1])>> \o Tail(slug)
                                  \o S_dot_swift]
        lines == LineHeader
                   \o <<L_import, <<>>,
                        <<"p", "u", "b", "l", "i", "c", " ", "e", "n", "u", "m", " ">>
                            \o themeName \o S_ThemeTokens \o <<" ", "{">> >>
                   \o [i \in DOMAIN toks |->
                         <<" ", " ", "p", "u", "b", "l", "i", "c", " ", "s", "t", "a",
                           "t", "i", "c", " ", "l", "e", "t", " ">>
                           \o toCamelCaseParts(toks[i].logicalName)
                           \o <<" ", "=", " ", "\"">> \o TemplateText(toks[i].value)
                           \o <<"\"">>]
                   \o << <<"}">>, <<>> >>
    IN IF slug = <<>> THEN Thrown(dirs \cup WithParents(outDir), text)
       ELSE Written(dirs \cup WithParents(outDir),
                    WriteFile(text, filePath, Join(lines, LineJoiner)))

writeFlutterThemeFiles(themeName, toks, dirs, text) ==
    LET outDir == "tokens/flutter"
        filePath == [dir |-> outDir,
                     name |-> S_theme_us \o toKebabCase(themeName) \o S_dot_dart]
        lines == <<L_generated, L_noedit, <<>>,
                   <<"c", "l", "a", "s", "s", " ">> \o themeName \o S_ThemeTokens
                       \o <<" ", "{">> >>
                   \o [i \in DOMAIN toks |->
                         <<" ", " ", "s", "t", "a", "t", "i", "c", " ", "c", "o", "n",
                           "s", "t", " ", "S", "t", "r", "i", "n", "g", " ">>
                           \o toCamelCaseParts(toks[i].logicalName)
                           \o <<" ", "=", " ", "\"">> \o TemplateText(toks[i].value)
                           \o <<"\"", ";">>]
                   \o << <<"}">>, <<>> >>
    IN Written(dirs \cup WithParents(outDir),
               WriteFile(text, filePath, Join(lines, LineJoiner)))

\* ------------------------------------------------------------------------
\* unnamed/part_000: runBuild
\* ------------------------------------------------------------------------

LegacyResult(code, err, dirs, text, built) ==
    [exitCode |-> code, stderr |-> err, dirs |-> dirs, text |-> text,
     built |-> built]

\* keys[0]
FirstKey(keys) == IF Len(keys) >= 1 THEN JStr(keys[1]) ELSE Undefined

\* raw[key]: an undefined key reads the member named "undefined".
Member(raw, key) == Get(raw, TemplateText(key))

\* let primitiveKey = process.env.TOKENS_PRIMITIVE_KEY; if (!primitiveKey ||
\* !raw[primitiveKey]) primitiveKey = find(/primitive/i) ?? find(/base/i)
\*     ?? topLevelKeys[0];
selectPrimitiveKey(raw, keys, fromEnv) ==
    IF Truthy(fromEnv) /\ Truthy(Member(raw, fromEnv)) THEN fromEnv
    ELSE LET byPrimitive == Find(keys, LAMBDA k : TestCI(k, S_primitive))
             byBase == Find(keys, LAMBDA k : TestCI(k, S_base))
         IN IF byPrimitive # Undefined THEN byPrimitive
            ELSE IF byBase # Undefined THEN byBase
            ELSE FirstKey(keys)

\* let componentKey = process.env.TOKENS_COMPONENT_KEY; if (!componentKey ||
\* !raw[componentKey]) componentKey = find(/component/i) ?? find(/brand/i)
\*     ?? find(k => k !== primitiveKey) ?? topLevelKeys[1];
selectComponentKey(raw, keys, fromEnv, primitiveKey) ==
    IF Truthy(fromEnv) /\ Truthy(Member(raw, fromEnv)) THEN fromEnv
    ELSE LET byComponent == Find(keys, LAMBDA k : TestCI(k, S_component))
             byBrand == Find(keys, LAMBDA k : TestCI(k, S_brand))
             other == Find(keys, LAMBDA k : JStr(k) # primitiveKey)
         IN IF byComponent # Undefined THEN byComponent
            ELSE IF byBrand # Undefined THEN byBrand
            ELSE IF other # Undefined THEN other
            ELSE SecondKey(keys)

validPlatforms == {S_web, S_android, S_ios, S_flutter, S_all}

\* (platformArg || 'web').toLowerCase()
legacyTargetOf(arg) == toLowerCase(IF arg = <<>> THEN S_web ELSE arg)

\* target === 'all' ? ['web', 'android', 'ios', 'flutter'] : [target]
targetPlatforms(target) ==
    IF target = S_all THEN {S_web, S_android, S_ios, S_flutter} ELSE {target}

\* if (targetPlatforms.includes(p)) write<P>ThemeFiles(themeName, collected)
writePlatform(p, themeName, toks, wanted, dirs, text) ==
    IF p \notin wanted THEN Written(dirs, text)
    ELSE CASE p = S_web -> writeWebThemeFiles(themeName, toks, dirs, text)
           [] p = S_android -> writeAndroidThemeFiles(themeName, toks, dirs, text)
           [] p = S_ios -> writeIOSTokenFiles(themeName, toks, dirs, text)
           [] p = S_flutter -> writeFlutterThemeFiles(themeName, toks, dirs, text)

\* The order in which the body of the brand loop calls the writers.
WriterOrder == <<S_web, S_android, S_ios, S_flutter>>

\* The writers of one brand from the one at position k on; an uncaught
\* TypeError of one stops the rest.
RECURSIVE writeBrand(_, _, _, _, _)
writeBrand(k, themeName, toks, wanted, done) ==
    IF k > Len(WriterOrder) \/ done.threw THEN done
    ELSE writeBrand(k + 1, themeName, toks, wanted,
                    writePlatform(WriterOrder[k], themeName, toks, wanted,
                                  done.dirs, done.text))

\* brandKeys.forEach((brandKey, index) => { ... }) from brand i on, done
\* being the disk after the brands before it.
RECURSIVE buildBrands(_, _, _, _, _, _)
buildBrands(i, brandKeys, collection, primitiveMap, wanted, done) ==
    IF done.threw
    THEN LegacyResult(1, <<"error: uncaught TypeError">>, done.dirs, done.text,
                      SubSeq(brandKeys, 1, i - 1))
    ELSE IF i > Len(brandKeys)
    THEN LegacyResult(0, <<>>, done.dirs, done.text, brandKeys)
    ELSE buildBrands(i + 1, brandKeys, collection, primitiveMap, wanted,
             writeBrand(1, brandKeys[i],
                        walk(Get(collection, brandKeys[i]), <<>>, brandKeys[i],
                             primitiveMap),
                        wanted, done))

\* runBuild(platformArg) of part_000, from its first line to the end of the
\* process: it is synchronous.
legacyRunBuild(raw, arg, environment, dirs, files, text) ==
    LET keys == ObjectKeys(raw)
        primitiveKey == selectPrimitiveKey(raw, keys, environment.primitive)
        componentKey0 == selectComponentKey(raw, keys, environment.component,
                                             primitiveKey)
        primitiveCollection == Member(raw, primitiveKey)
        componentCollection == Member(raw, componentKey0)
        primitiveModes == ObjectKeys(primitiveCollection)
        flat == flattenToMap(Get(primitiveCollection, primitiveModes[1]))
        target == legacyTargetOf(arg)
        Fail(message) == LegacyResult(1, <<message>>, dirs, text, <<>>)
    IN IF "tokens" \notin dirs THEN Fail("error: tokens folder not found")
       ELSE IF ~tokenFileExists(files)
       THEN Fail("error: design-tokens.json not found")
       ELSE IF raw.t \in {"null", "undefined"}
       THEN Fail("error: uncaught TypeError")
       ELSE IF ~Truthy(primitiveCollection) \/ ~Truthy(componentCollection)
       THEN Fail("error: could not resolve primitive/component collections")
       ELSE IF primitiveModes = <<>>
       THEN Fail("error: no modes found")
       ELSE IF flat.threw
       THEN Fail("error: uncaught TypeError")
       ELSE IF target \notin validPlatforms
       THEN Fail("error: unknown platform")
       ELSE buildBrands(1, ObjectKeys(componentCollection), componentCollection,
                        flat.map, targetPlatforms(target), Written(dirs, text))

\* ------------------------------------------------------------------------
\* unnamed/part_000: inputs and the build as a state machine
\* ------------------------------------------------------------------------

MaxRuns == 3

S_acme == <<"a", "c", "m", "e">>
K_primitives == <<"p", "r", "i", "m", "i", "t", "i", "v", "e", "s">>


\* {"base": {"red": "#f00", "space": {"sm": 4}}}
Palette ==
    Obj1(S_base, Obj2(<<"r", "e", "d">>, JStr(<<"#", "f", "0", "0">>),
                      <<"s", "p", "a", "c", "e">>, Obj1(<<"s", "m">>, JNum(4))))

\* {"color": "1px"}
TreeOrdinary == Obj1(<<"c", "o", "l", "o", "r">>, JStr(<<"1", "p", "x">>))

\* {"a-b": "1", "a": {"b": "2"}}: two tokens with one derived name
TreeSameName ==
    Obj2(<<"a", "-", "b">>, JStr(<<"1">>), <<"a">>, Obj1(<<"b">>, JStr(<<"2">>)))

\* {"t": "--b\\:\\c"}: a value in the spelling readExistingCssVars reads
TreeCssLookalike == Obj1(<<"t">>, JStr(<<"-", "-", "b", "\\", ":", "\\", "c">>))

\* {"t": "export const\\s\\w\\=\\'x"}: the same for readExistingTsConsts
TreeTsLookalike ==
    Obj1(<<"t">>,
         JStr(<<"e", "x", "p", "o", "r", "t", " ", "c", "o", "n", "s", "t", "\\", "s", "\\", "w", "\\", "=", "\\", "'", "x">>))

\* {"color": "\\{red\\}", "gap": "\\{space/sm\\}", "miss": "\\{nope\\}",
\*  "plain": "{red}", "on": true, "off": null}
TreeAliases ==
    JObj(<< <<<<"c", "o", "l", "o", "r">>, JStr(<<"\\", "{", "r", "e", "d", "\\", "}">>)>>,
            <<<<"g", "a", "p">>,
              JStr(<<"\\", "{", "s", "p", "a", "c", "e", "/", "s", "m", "\\", "}">>)>>,
            <<<<"m", "i", "s", "s">>,
              JStr(<<"\\", "{", "n", "o", "p", "e", "\\", "}">>)>>,
            <<<<"p", "l", "a", "i", "n">>, JStr(<<"{", "r", "e", "d", "}">>)>>,
            <<<<"o", "n">>, JBool(TRUE)>>,
            <<<<"o", "f", "f">>, Null>> >>)

\* {"base": {"a": "#111", "b": "{a}", "c": "\\{a\\}"}}: primitives that
\* refer to a primitive
PaletteChain ==
    Obj1(S_base, JObj(<< <<<<"a">>, JStr(<<"#", "1", "1", "1">>)>>,
                         <<<<"b">>, JStr(<<"{", "a", "}">>)>>,
                         <<<<"c">>, JStr(<<"\\", "{", "a", "\\", "}">>)>> >>))

\* {"t": "{b}", "u": "\\{b\\}", "v": "{a}", "w": "\\{c\\}"}
TreeChain ==
    JObj(<< <<<<"t">>, JStr(<<"{", "b", "}">>)>>,
            <<<<"u">>, JStr(<<"\\", "{", "b", "\\", "}">>)>>,
            <<<<"v">>, JStr(<<"{", "a", "}">>)>>,
            <<<<"w">>, JStr(<<"\\", "{", "c", "\\", "}">>)>> >>)

\* {"x": "1px {red}", "y": "{nope}", "z": 0, "k": "\\{constructor\\}"}
TreeUnresolved ==
    JObj(<< <<<<"x">>, JStr(<<"1", "p", "x", " ", "{", "r", "e", "d", "}">>)>>,
            <<<<"y">>, JStr(<<"{", "n", "o", "p", "e", "}">>)>>,
            <<<<"z">>, JNum(0)>>,
            <<<<"k">>, JStr(<<"\\", "{", "c", "o", "n", "s", "t", "r", "u", "c", "t", "o", "r", "\\", "}">>)>> >>)

\* {"color": {"value": "1px", "$type": "dimension"}}: a token given as a
\* record with a value marker
TreeMarked ==
    Obj1(<<"c", "o", "l", "o", "r">>,
         Obj2(S_value, JStr(<<"1", "p", "x">>),
              <<"$", "t", "y", "p", "e">>,
              JStr(<<"d", "i", "m", "e", "n", "s", "i", "o", "n">>)))

\* {"b": {"x": "1", "y": {"z": "2"}}, "7": "3", "a": "4"}: groups in groups
\* and an integer-like key
TreeNested ==
    JObj(<< <<<<"b">>, Obj2(<<"x">>, JStr(<<"1">>),
                            <<"y">>, Obj1(<<"z">>, JStr(<<"2">>)))>>,
            <<<<"7">>, JStr(<<"3">>)>>,
            <<<<"a">>, JStr(<<"4">>)>> >>)

LegacyDoc(primitives, brands) == Obj2(K_primitives, primitives, K_brands, brands)

\* The token documents of the builds: one brand over each tree, a brand
\* that is a bare string, two brands, collections found by position, and the
\* documents runBuild refuses or crashes on.
LegacyBaseDocs ==
    {LegacyDoc(Palette, Obj1(S_acme, tree)) :
        tree \in {TreeOrdinary, TreeSameName, TreeCssLookalike, TreeTsLookalike,
                  TreeAliases, JStr(<<"p", "l", "a", "i", "n">>)}}
    \cup {LegacyDoc(PaletteChain, Obj1(S_acme, TreeChain)),
          LegacyDoc(Palette, Obj1(S_acme, TreeUnresolved)),
          LegacyDoc(Palette, Obj1(S_acme, TreeMarked)),
          LegacyDoc(Palette, Obj1(S_acme, TreeNested))}
    \cup {LegacyDoc(Palette, Obj2(S_acme, TreeOrdinary,
                                  <<"B", "e", "t", "a", " ", "T", "w", "o">>,
                                  TreeSameName)),
          Obj2(K_palette, Palette, K_themes, Obj1(S_acme, TreeOrdinary)),
          JObj(<<>>),
          LegacyDoc(JObj(<<>>), Obj1(S_acme, TreeOrdinary)),
          LegacyDoc(Obj1(S_base, Null), Obj1(S_acme, TreeOrdinary)),
          LegacyDoc(Palette, Obj1(<<>>, TreeOrdinary)),
          LegacyDoc(Palette, Obj1(<<"$">>, TreeOrdinary)),
          LegacyDoc(Palette, JStr(<<"a", "b">>))}

\* The same document with the members of every object in reverse order.
RECURSIVE ReverseKeys(_)
ReverseKeys(v) ==
    IF v.t # "object" THEN v
    ELSE JObj([i \in DOMAIN v.kv |->
                 <<v.kv[Len(v.kv) + 1 - i][1],
                   ReverseKeys(v.kv[Len(v.kv) + 1 - i][2])>>])

\* The same document with the keys inside its collections in reverse order.
ReverseTokens(v) ==
    IF v.t # "object" THEN v
    ELSE JObj([i \in DOMAIN v.kv |-> <<v.kv[i][1], ReverseKeys(v.kv[i][2])>>])

LegacyDocs ==
    LegacyBaseDocs \cup {ReverseKeys(d) : d \in LegacyBaseDocs}
        \cup {ReverseTokens(d) : d \in LegacyBaseDocs}

LegacyTargets ==
    {<<>>, S_web, <<"W", "E", "B">>, S_android, S_ios, S_flutter, S_all,
     <<"d", "e", "s", "k", "t", "o", "p">>}

\* No override, an override that swaps the two collections, and one that
\* names a member every object inherits.
LegacyEnvs ==
    {NoEnv, [primitive |-> JStr(K_brands), component |-> JStr(K_primitives)],
     [primitive |-> JStr(S_constructor), component |-> Undefined]}

\* Documents that are not objects, each with NoEnv and with overrides
\* that name a member a string inherits.
LegacyDocsNotObjects == {Null, JStr(<<"a", "b", "c">>), JNum(5)}
LegacyEnvsOfStrings ==
    {NoEnv,
     [primitive |-> JStr(S_length), component |-> Undefined],
     [primitive |-> Undefined, component |-> JStr(S_length)],
     [primitive |-> JStr(S_constructor), component |-> JStr(S_proto)]}

\* A theme-acme.css and a theme-acme.ts written by hand, with line feeds.
HandWrittenCss ==
    <<"[", "d", "a", "t", "a", "-", "t", "h", "e", "m", "e", "=", "\"",
    "a", "c", "m", "e", "\"", "]", " ", "{", "\n", " ", " ", "-", "-",
    "c", "u", "s", "t", "o", "m", "-", "h", "a", "n", "d", "w", "r", "i",
    "t", "t", "e", "n", ":", " ", "1", "p", "x", ";", "\n", " ", " ",
    "-", "-", "a", "c", "m", "e", "-", "c", "o", "l", "o", "r", ":", " ",
    "o", "l", "d", ";", "\n", "}", "\n">>
HandWrittenTs ==
    <<"e", "x", "p", "o", "r", "t", " ", "c", "o", "n", "s", "t", " ",
    "c", "u", "s", "t", "o", "m", "H", "a", "n", "d", "w", "r", "i", "t",
    "t", "e", "n", " ", "=", " ", "\"", "1", "p", "x", "\"", ";", "\n",
    "e", "x", "p", "o", "r", "t", " ", "c", "o", "n", "s", "t", " ", "a",
    "c", "m", "e", "C", "o", "l", "o", "r", " ", "=", " ", "\"", "o",
    "l", "d", "\"", ";", "\n">>

\* The same two entries in the only spelling the two readers match.
EscapedCss ==
    <<"-", "-", "c", "u", "s", "t", "o", "m", "-", "h", "a", "n", "d",
    "w", "r", "i", "t", "t", "e", "n", "\\", ":", "\\", "1", "p", "x",
    ";", "-", "-", "a", "c", "m", "e", "-", "c", "o", "l", "o", "r",
    "\\", ":", "\\", "o", "l", "d", ";">>
EscapedTs ==
    <<"e", "x", "p", "o", "r", "t", " ", "c", "o", "n", "s", "t", "\\",
    "s", "\\", "w", "\\", "=", "\\", "\"", "1", "p", "x", "\"", ";">>

ThemeFiles(css, ts) ==
    WriteFile(WriteFile(NoText, cssPathOf(S_acme), css), tsPathOf(S_acme), ts)

\* What src/styles holds before the first build.
ExistingTexts ==
    {NoText, ThemeFiles(HandWrittenCss, HandWrittenTs),
     ThemeFiles(EscapedCss, EscapedTs)}

InitLegacy ==
    /\ platformArg \in LegacyTargets
    /\ \/ /\ command = "build"
          /\ workflowText = Undefined
          /\ packageJson = Undefined
          /\ env \in LegacyEnvs
          /\ \E f \in {<<{}, Undefined, NoText>>, <<{"tokens"}, Undefined, NoText>>}
                          \cup {<<{"tokens"}, d, t>> : d \in LegacyDocs, t \in ExistingTexts} :
                /\ tokenDoc = f[2]
                /\ fileText = f[3]
                /\ fsDirs = f[1] \cup (IF f[3] = NoText THEN {} ELSE WithParents(StylesDir))
                /\ fsFiles = (IF f[2] = Undefined THEN {} ELSE {TokenFile}) \cup DOMAIN f[3]
       \/ /\ command = "build"
          /\ workflowText = Undefined
          /\ packageJson = Undefined
          /\ env \in LegacyEnvsOfStrings
          /\ tokenDoc \in LegacyDocsNotObjects
          /\ fileText = NoText
          /\ fsDirs = {"tokens"}
          /\ fsFiles = {TokenFile}
       \/ /\ command = "init"
          /\ workflowText \in ExistingWorkflows
          /\ packageJson \in PackageFiles
          /\ env = NoEnv
          /\ \E f \in {<<{}, {}, Undefined>>,
                        <<{"tokens"}, {TokenFile}, LegacyDoc(Palette, Obj1(S_acme, TreeOrdinary))>>} :
                /\ fsDirs = f[1] \cup WorkflowDirsOf(workflowText)
                /\ fsFiles = f[2] \cup InitFilesOf(workflowText, packageJson)
                /\ tokenDoc = f[3]
          /\ fileText = NoText
    /\ pc = "start"
    /\ exitCode = -1
    /\ stderr = <<>>
    /\ tokens = Undefined
    /\ componentKey = Undefined
    /\ sharedKeys = <<>>
    /\ basePrimitives = Undefined
    /\ brandNames = <<>>
    /\ brandIdx = 0
    /\ emit = <<>>
    /\ started = <<>>
    /\ runs = 0

\* One `orchestra-cli build <platform>` of part_000, from start to exit.
LegacyBuild ==
    /\ command = "build"
    /\ runs < MaxRuns
    /\ \E r \in {legacyRunBuild(tokenDoc, platformArg, env, fsDirs, fsFiles, fileText)} :
          /\ exitCode' = r.exitCode
          /\ stderr' = r.stderr
          /\ fsDirs' = r.dirs
          /\ fileText' = r.text
          /\ fsFiles' = fsFiles \cup DOMAIN r.text
          /\ started' = r.built
    /\ runs' = runs + 1
    /\ pc' = "exited"
    /\ UNCHANGED <<tokenDoc, platformArg, env, tokens, componentKey, sharedKeys,
                   basePrimitives, brandNames, brandIdx, emit>>
    /\ UNCHANGED cliVars

\* One `orchestra-cli init [platform]` of part_000, from start to exit: an
\* existing workflow is left as it is, an existing tokens script too.
LegacyRunInit ==
    /\ command = "init"
    /\ runs < MaxRuns
    /\ LET r == addTokensScript(packageJson, initTargetOf(platformArg), FALSE)
       IN /\ packageJson' = r.pkg
          /\ stderr' = r.err
    /\ fsDirs' = fsDirs \cup WorkflowDirs
    /\ fsFiles' = fsFiles \cup {WorkflowFile}
    /\ workflowText' = IF workflowText # Undefined THEN workflowText
                       ELSE JStr(WORKFLOW_CONTENT)
    /\ runs' = runs + 1
    /\ pc' = "exited"
    /\ exitCode' = 0
    /\ UNCHANGED <<tokenDoc, platformArg, tokens, componentKey, sharedKeys,
                   basePrimitives, brandNames, brandIdx, emit, started,
                   fileText, env, command>>

NextLegacy == LegacyBuild \/ LegacyRunInit

SpecLegacy == InitLegacy /\ [][NextLegacy]_vars

\* The documents the token file is rewritten to between two builds: the
\* brand acme over three trees with different token names.
EditedDocs ==
    {LegacyDoc(Palette, Obj1(S_acme, tree)) :
        tree \in {TreeOrdinary, TreeNested, TreeSameName}}

\* tokens/design-tokens.json is replaced between two builds; the output
\* directories are left alone.
EditDocument ==
    /\ runs < MaxRuns
    /\ TokenFile \in fsFiles
    /\ tokenDoc' \in EditedDocs \ {tokenDoc}
    /\ UNCHANGED <<fsDirs, fsFiles, platformArg, pc, exitCode, stderr, tokens,
                   componentKey, sharedKeys, basePrimitives, brandNames,
                   brandIdx, emit, started>>
    /\ UNCHANGED legacyVars
    /\ UNCHANGED cliVars

NextLegacyEdits == LegacyBuild \/ LegacyRunInit \/ EditDocument

\* Builds of part_000 with the token document changing between them.
SpecLegacyEdits == InitLegacy /\ [][NextLegacyEdits]_vars

\* ------------------------------------------------------------------------
\* unnamed/part_001: the build with one primitive group
\* ------------------------------------------------------------------------

\* normalizeTokens(obj) of part_001: strings and numbers become { value }
\* records, groups are recursed into; references are left as written.
RECURSIVE normalizeTokens001(_)
normalizeTokens001(obj) ==
    IF obj.t # "object" THEN obj
    ELSE
      LET keys == ObjectKeys(obj)
          Entry(key) ==
            LET val == Get(obj, key) IN
            IF key = S_value \/ key = S_dvalue \/ StartsWith(key, <<"$">>)
            THEN val
            ELSE IF val.t \in {"string", "number"}
            THEN Obj1(S_value, val)
            ELSE IF val.t = "object"
            THEN IF Get(val, S_value) # Undefined \/ Get(val, S_dvalue) # Undefined
                 THEN val
                 ELSE normalizeTokens001(val)
            ELSE val
      IN assignEntries(JObj(<<>>),
                       [i \in DOMAIN keys |-> <<keys[i], Entry(keys[i])>>])

\* /primitive|base|core|global/i.test(k)
primitiveLike001(k) ==
    TestCI(k, S_primitive) \/ TestCI(k, S_base) \/ TestCI(k, S_core)
        \/ TestCI(k, S_global)

\* let primitiveKey = keys.find(...); if (!primitiveKey) primitiveKey = keys[0];
findPrimitiveKey001(keys) ==
    LET byName == Find(keys, LAMBDA k : primitiveLike001(k))
    IN IF Truthy(byName) THEN byName ELSE FirstKey(keys)

\* keys.find(k => k !== primitiveKey && /component|brand|semantic|token/i
\*     .test(k)) || keys[1]
findComponentKey001(keys, primitiveKey) ==
    LET byName == Find(keys, LAMBDA k : JStr(k) # primitiveKey /\ componentLike(k))
    IN IF Truthy(byName) THEN byName ELSE SecondKey(keys)

\* const sharedKeys of bin/index.js, here the one key of const primitives
primitiveKeys001(primitiveKey) ==
    IF primitiveKey.t = "string" THEN <<primitiveKey.s>> ELSE <<>>

\* runBuild of part_001 from its first line to its first await (or to the
\* exit): the primitives are one group, probed for modes inside the brand
\* loop.
Start001 ==
    /\ command = "build"
    /\ pc = "start"
    /\ LET toks == normalizeTokens001(tokenDoc)
           keys == ObjectKeys(toks)
           pk == findPrimitiveKey001(keys)
           ck == findComponentKey001(keys, pk)
           primitives == Get(toks, pk.s)
           group == Get(toks, ck.s)
           names == ObjectKeys(group)
           modes == hasModes(primitives)
       IN IF ~tokenFileExists(fsFiles)
          THEN /\ Apply(Exit1("error: design-tokens.json not found"))
               /\ UNCHANGED <<tokens, componentKey, sharedKeys, basePrimitives, brandNames>>
          ELSE IF toks.t = "null"
          THEN \* Object.keys(tokens) throws; main's catch reports it
               /\ Apply(Exit1("error: cannot read the keys of the document"))
               /\ tokens' = toks
               /\ UNCHANGED <<componentKey, sharedKeys, basePrimitives, brandNames>>
          ELSE IF ~Truthy(pk) \/ ~Truthy(ck)
          THEN /\ Apply(Exit1("error: could not identify component tokens"))
               /\ tokens' = toks
               /\ componentKey' = ck
               /\ sharedKeys' = primitiveKeys001(pk)
               /\ UNCHANGED <<basePrimitives, brandNames>>
          ELSE IF notAnObject(group)
          THEN /\ Apply(Exit1("error: component group is empty or not an object"))
               /\ tokens' = toks
               /\ componentKey' = ck
               /\ sharedKeys' = primitiveKeys001(pk)
               /\ UNCHANGED <<basePrimitives, brandNames>>
          ELSE IF names # <<>> /\ modes = "throws"
          THEN \* thrown inside the body of the loop, for the first brand
               /\ Apply(Outcome("exited", 1,
                                Append(stderr, "error: cannot read the primitive groups"),
                                fsDirs, brandIdx, emit,
                                Append(started, names[1])))
               /\ tokens' = toks
               /\ componentKey' = ck
               /\ sharedKeys' = primitiveKeys001(pk)
               /\ brandNames' = names
               /\ UNCHANGED basePrimitives
          ELSE /\ tokens' = toks
               /\ componentKey' = ck
               /\ sharedKeys' = primitiveKeys001(pk)
               /\ basePrimitives' =
                     IF names = <<>> THEN basePrimitives
                     ELSE IF modes = "true"
                     THEN Get(primitives, ObjectKeys(primitives)[1])
                     ELSE primitives
               /\ brandNames' = names
               /\ Apply(brandLoop(1, names, targetOf(platformArg), fsDirs, stderr,
                                  [i \in DOMAIN names |-> [q \in PlatformSet |-> "idle"]],
                                  started))
    /\ UNCHANGED <<fsFiles, tokenDoc, platformArg>>
    /\ UNCHANGED legacyVars
    /\ UNCHANGED cliVars

Next001 ==
    \/ Start001
    \/ RunInit
    \/ \E p \in PlatformSet : EmitterResolves(p)
    \/ \E p \in PlatformSet : EmitterRejects(p)

Spec001 == Init /\ [][Next001]_vars

\* ------------------------------------------------------------------------
\* Claims about the build of bin/index.js
\* ------------------------------------------------------------------------

NamedTargets == {S_web, S_android, S_ios, S_flutter, S_all}

\* The emitters the specification assigns to a target.
EmittersOf(target) ==
    CASE target = S_web -> {S_css, S_ts}
      [] target = S_android -> {S_android}
      [] target = S_ios -> {S_ios}
      [] target = S_flutter -> {S_flutter}
      [] target = S_all -> {S_css, S_ts, S_android, S_ios, S_flutter}

EmittersRun(i) == {p \in PlatformSet : emit[i][p] # "idle"}

OutputFiles == {f \in fsFiles : f # TokenFile}

ClassificationErrors ==
    {"error: could not identify component tokens",
     "error: component group is empty or not an object"}

Reported(message) == \E i \in DOMAIN stderr : stderr[i] = message

\* C1: for the build command, when the target argument, compared
\* case-insensitively, is web, android, ios, flutter or all, the emitters run
\* for every brand whose loop body has run are exactly the ones the target
\* maps to, no emitter runs for a brand not yet reached, and with web nothing
\* is created under tokens/android, tokens/ios or tokens/flutter.
C1_PlatformMapping ==
    LET target == toLowerCase(platformArg) IN
    (command = "build" /\ platformArg # <<>> /\ target \in NamedTargets) =>
        /\ \A i \in DOMAIN emit :
              EmittersRun(i) = IF i <= Len(started) THEN EmittersOf(target) ELSE {}
        /\ target = S_web =>
              /\ fsDirs \cap {"tokens/android", "tokens/ios", "tokens/flutter"} = {}
              /\ \A f \in fsFiles : f.dir \in {"tokens", "src/styles"}

\* C1 witness: build WEB has written the CSS and the TS file of a brand.
C1_Witness ==
    /\ platformArg = <<"W", "E", "B">>
    /\ \E i \in DOMAIN emit : emit[i][S_css] = "done" /\ emit[i][S_ts] = "done"
    /\ \E f \in fsFiles : f.dir = "src/styles"

\* C2: for the build command and every target string other than web, android, ios, flutter and
\* all, the finished build has selected no emitter, has reported the warning
\* for the brands it went through, has written no output file and has not
\* exited non-zero unless the document itself was rejected.
C2_UnknownTargetIsHarmless ==
    (command = "build" /\ pc = "exited" /\ platformArg # <<>>
        /\ toLowerCase(platformArg) \notin NamedTargets) =>
        /\ \A i \in DOMAIN emit : EmittersRun(i) = {}
        /\ started # <<>> => Reported("warn: unknown platform")
        /\ OutputFiles = {}
        /\ exitCode = 1 =>
              \/ ~tokenFileExists(fsFiles)
              \/ \E m \in ClassificationErrors : Reported(m)
              \/ Reported("error: cannot read the primitive groups")
              \/ Reported("error: cannot read the keys of the document")

\* C3: the brands are gone through in the order of Object.keys of the
\* component group, and an emitter of a later brand has started only when
\* every emitter started for each earlier brand has completed.
C3_BrandsInSequence ==
    /\ started # <<>> =>
          started = SubSeq(ObjectKeys(Get(tokens, componentKey.s)), 1, Len(started))
    /\ \A i, j \in DOMAIN emit :
          (i < j /\ EmittersRun(j) # {}) =>
              /\ EmittersRun(i) # {}
              /\ \A p \in EmittersRun(i) : emit[i][p] = "done"

\* C3 witness: the second brand is being emitted, some of its emitters done
\* and some running, after the first brand's five emitters completed.
C3_Witness ==
    /\ Len(emit) >= 2
    /\ \A p \in PlatformSet : emit[1][p] = "done"
    /\ emit[2][S_css] = "running"
    /\ emit[2][S_flutter] = "done"

\* C4: once an emitter of a brand has rejected, the process has exited
\* non-zero, no emitter of a later brand has started, and every file an
\* earlier brand's emitter wrote is still on disk.
C4_RejectionAborts ==
    \A i \in DOMAIN emit :
        (\E p \in PlatformSet : emit[i][p] = "failed") =>
            /\ pc = "exited"
            /\ exitCode > 0
            /\ \A j \in DOMAIN emit : j > i => EmittersRun(j) = {}
            /\ \A j \in DOMAIN emit : j < i =>
                  \A p \in EmittersRun(j) : OutputFile(brandNames[j], p) \in fsFiles

\* C4 witness: an emitter of the second brand rejected after the first brand
\* was written, while another emitter of the second brand was still running.
C4_Witness ==
    /\ Len(emit) >= 2
    /\ emit[1][S_css] = "done"
    /\ emit[2][S_ts] = "failed"
    /\ emit[2][S_css] = "running"
    /\ exitCode = 1

\* C5: when tokens/design-tokens.json (or the tokens directory with it) is
\* absent, the build has reported that error and nothing else, has exited
\* non-zero, and no output directory or file exists.
C5_MissingInput ==
    (command = "build" /\ pc # "start" /\ TokenFile \notin fsFiles) =>
        /\ pc = "exited"
        /\ exitCode > 0
        /\ stderr = <<"error: design-tokens.json not found">>
        /\ fsDirs \cap OutputDirs = {}
        /\ OutputFiles = {}

\* C5 witness: the build has exited in a directory without tokens/.
C5_Witness == command = "build" /\ pc = "exited" /\ "tokens" \notin fsDirs

\* A Group: an object that carries no value marker.
IsGroup(v) ==
    /\ v.t = "object"
    /\ Get(v, S_value) = Undefined
    /\ Get(v, S_dvalue) = Undefined

\* C6: when the document's value under the selected component key is
\* missing or is not a Group, the build has reported a classification error
\* and exited non-zero with no brand gone through and no output; in every
\* other case no classification error is reported.  (Builds that stop on
\* an unreadable shared group, or on a document whose keys cannot be read,
\* are left aside.)
C6_ClassificationFailsLoudly ==
    (/\ pc # "start"
     /\ tokenFileExists(fsFiles)
     /\ ~Reported("error: cannot read the primitive groups")
     /\ ~Reported("error: cannot read the keys of the document")) =>
        IF Truthy(componentKey) /\ IsGroup(Get(tokenDoc, componentKey.s))
        THEN \A m \in ClassificationErrors : ~Reported(m)
        ELSE /\ pc = "exited"
             /\ exitCode > 0
             /\ \E m \in ClassificationErrors : Reported(m)
             /\ started = <<>>
             /\ fsDirs \cap OutputDirs = {}
             /\ OutputFiles = {}

\* C7: for a document of exactly two top-level groups whose names match
\* neither pattern list, the first key is the only primitive group, the
\* second key is the component group and no classification error is
\* reported.
C7_PositionalFallback ==
    LET keys == ObjectKeys(tokenDoc) IN
    (/\ pc # "start"
     /\ tokenFileExists(fsFiles)
     /\ Len(keys) = 2
     /\ \A i \in DOMAIN keys :
           /\ IsGroup(Get(tokenDoc, keys[i]))
           /\ ~componentLike(keys[i])
           /\ ~primitiveLike(keys[i]))
        => /\ componentKey = JStr(keys[2])
           /\ sharedKeys = <<keys[1]>>
           /\ \A m \in ClassificationErrors : ~Reported(m)

\* ------------------------------------------------------------------------
\* Claims about the build of unnamed/part_000
\* ------------------------------------------------------------------------

\* The brands whose CSS and TS files the build step just taken has written.
WebBrandsBuilt ==
    IF S_web \in targetPlatforms(legacyTargetOf(platformArg))
    THEN {started[i] : i \in DOMAIN started}
    ELSE {}

\* The tokens the build collects for one brand of the document on disk.
CollectedFor(brandKey) ==
    LET keys == ObjectKeys(tokenDoc)
        primitiveKey == selectPrimitiveKey(tokenDoc, keys, env.primitive)
        primitiveCollection == Member(tokenDoc, primitiveKey)
        componentCollection ==
            Member(tokenDoc, selectComponentKey(tokenDoc, keys, env.component,
                                                primitiveKey))
    IN walk(Get(componentCollection, brandKey), <<>>, brandKey,
            flattenToMap(Get(primitiveCollection,
                             ObjectKeys(primitiveCollection)[1])).map)

\* --name: value; as a stylesheet spells a custom property
CssEntry(name, value) == <<"-", "-">> \o name \o <<":", " ">> \o value \o <<";">>

\* export const name = "value"; as a module spells a constant
TsEntry(name, value) ==
    S_export_const \o <<" ">> \o name \o <<" ", "=", " ", "\"">> \o value
        \o <<"\"", ";">>

\* The entries a developer may have added to the two files by hand.
HandCssEntries ==
    {[name |-> <<"c", "u", "s", "t", "o", "m", "-", "h", "a", "n", "d", "w", "r", "i", "t", "t", "e", "n">>,
      value |-> <<"1", "p", "x">>],
     [name |-> <<"a", "c", "m", "e", "-", "c", "o", "l", "o", "r">>,
      value |-> <<"o", "l", "d">>]}

HandTsEntries ==
    {[name |-> <<"c", "u", "s", "t", "o", "m", "H", "a", "n", "d", "w", "r", "i", "t", "t", "e", "n">>,
      value |-> <<"1", "p", "x">>],
     [name |-> <<"a", "c", "m", "e", "C", "o", "l", "o", "r">>,
      value |-> <<"o", "l", "d">>]}

\* One file of a brand keeps the entries it had that the build does not
\* compute, and shows the fresh value of those it computes.
Preserved(before, after, entries, fresh, Entry(_, _)) ==
    \A e \in entries :
        Includes(before, Entry(e.name, e.value)) =>
            IF HasKey(fresh, e.name)
            THEN Includes(after, Entry(e.name, TemplateText(Get(fresh, e.name))))
            ELSE Includes(after, Entry(e.name, e.value))

\* C8: a build step that rewrites the CSS and TS file of a brand keeps every
\* custom property / exported constant the file held before under a name
\* that no token of the build derives (--custom-handwritten: 1px; is still
\* there), and writes the fresh value for a name that is both in the file and
\* computed.
C8_MergePreservation ==
    [][\A b \in WebBrandsBuilt' :
          LET css == cssPathOf(toKebabCase(b))
              ts == tsPathOf(toKebabCase(b))
              toks == CollectedFor(b)
          IN /\ css \in DOMAIN fileText =>
                   Preserved(fileText[css], fileText'[css], HandCssEntries,
                             assignCssVars(JObj(<<>>), toks), CssEntry)
             /\ ts \in DOMAIN fileText =>
                   Preserved(fileText[ts], fileText'[ts], HandTsEntries,
                             assignTsConsts(JObj(<<>>), toks), TsEntry)]_vars

\* The CSS and TS files among the files on disk.
WebFiles(text) ==
    [f \in {g \in DOMAIN text : g.dir = StylesDir} |-> text[f]]

\* C9: with the same token document and target and nothing else touching
\* the output directory, every CSS and TS file after the second and each
\* later build is byte-identical to what the build before it left: the
\* first build reaches the fixed point.
C9_SecondBuildIdentical ==
    [][runs >= 1 => WebFiles(fileText') = WebFiles(fileText)]_vars

\* Where the lines of a generated file start (its lines are joined by the
\* LineJoiner), and the names its entries declare, by position.
LineStarts(c) ==
    {1} \cup {i + 2 : i \in {j \in 1..(Len(c) - 1) :
                                c[j] = LineJoiner[1] /\ c[j + 1] = LineJoiner[2]}}

StartsAt(c, s, lit) ==
    s + Len(lit) - 1 <= Len(c) /\ SubSeq(c, s, s + Len(lit) - 1) = lit

\* The entries of a file in ascending order of name: whenever one line
\* declaring a name comes before another, its name is the smaller.
NamesAscend(c, prefix, stop) ==
    LET starts == {s \in LineStarts(c) : StartsAt(c, s, prefix)}
        NameAt(s) == SubSeq(c, s + Len(prefix),
                            RunUntil({stop}, c, s + Len(prefix)))
    IN \A s1, s2 \in starts : s1 < s2 => StringLess(NameAt(s1), NameAt(s2))

\* Two documents that differ only in the order of the keys of their objects.
RECURSIVE SameUpToKeyOrder(_, _)
SameUpToKeyOrder(a, b) ==
    IF a.t = "object" /\ b.t = "object"
    THEN /\ Len(a.kv) = Len(b.kv)
         /\ \A i \in DOMAIN a.kv :
               /\ HasKey(b, a.kv[i][1])
               /\ SameUpToKeyOrder(a.kv[i][2], Get(b, a.kv[i][1]))
    ELSE a = b

\* The same collections in the same places, each the same up to the order
\* of the keys inside it (the place of a collection is what runBuild reads
\* when no name tells the primitives from the brands).
SameUpToTokenOrder(a, b) ==
    /\ a.t = "object" /\ b.t = "object"
    /\ Len(a.kv) = Len(b.kv)
    /\ \A i \in DOMAIN a.kv :
          /\ a.kv[i][1] = b.kv[i][1]
          /\ SameUpToKeyOrder(a.kv[i][2], b.kv[i][2])

\* C10: in every CSS and TS file the web writer has just written, the
\* custom properties / exported constants come in ascending lexicographic
\* order of name, so that the build of a token document that differs from
\* the one on disk only in the order of the keys inside its collections
\* would have left byte-identical CSS and TS files.
C10_SortedAndKeyOrderFree ==
    [][runs' = runs + 1 =>
          /\ \A b \in WebBrandsBuilt' :
                /\ NamesAscend(fileText'[cssPathOf(toKebabCase(b))],
                               <<" ", " ", "-", "-">>, ":")
                /\ NamesAscend(fileText'[tsPathOf(toKebabCase(b))],
                               S_export_const \o <<" ">>, " ")
          /\ \A d \in LegacyDocs :
                SameUpToTokenOrder(d, tokenDoc) =>
                    WebFiles(legacyRunBuild(d, platformArg, env, fsDirs, fsFiles,
                                            fileText).text)
                        = WebFiles(fileText')]_vars

\* ------------------------------------------------------------------------
\* Claims about the alias resolver of unnamed/part_000
\* ------------------------------------------------------------------------

\* The leaf values of a token tree in document order, each with the name
\* its path derives.
RECURSIVE Leaves(_, _)
RECURSIVE LeavesOf(_, _, _)
Leaves(node, pathParts) ==
    IF node.t = "object" THEN LeavesOf(node, ObjectKeys(node), pathParts)
    ELSE << [logicalName |-> Join(pathParts, <<"-">>), raw |-> node] >>

LeavesOf(node, ks, pathParts) ==
    IF ks = <<>> THEN <<>>
    ELSE Leaves(Get(node, Head(ks)), Append(pathParts, Head(ks)))
             \o LeavesOf(node, Tail(ks), pathParts)

\* A string that is entirely one reference {key}.
IsReference(v) ==
    /\ v.t = "string"
    /\ Len(v.s) >= 3
    /\ v.s[1] = "{" /\ v.s[Len(v.s)] = "}"
    /\ \A i \in 2..(Len(v.s) - 1) : v.s[i] # "}"

ReferenceKey(v) == SubSeq(v.s, 2, Len(v.s) - 1)

\* The Primitive Lookup Table the build makes of the document on disk.
PrimitiveTable ==
    LET keys == ObjectKeys(tokenDoc)
        primitiveCollection ==
            Member(tokenDoc, selectPrimitiveKey(tokenDoc, keys, env.primitive))
    IN flattenToMap(Get(primitiveCollection,
                        ObjectKeys(primitiveCollection)[1])).map

\* The token tree of one brand of the document on disk.
BrandTokens(brandKey) ==
    LET keys == ObjectKeys(tokenDoc)
        primitiveKey == selectPrimitiveKey(tokenDoc, keys, env.primitive)
    IN Get(Member(tokenDoc, selectComponentKey(tokenDoc, keys, env.component,
                                               primitiveKey)),
           brandKey)

\* The CSS and the TS file of the brand show the token under that value.
EmittedAs(brandKey, logicalName, value) ==
    LET slug == toKebabCase(brandKey) IN
    /\ cssPathOf(slug) \in DOMAIN fileText
    /\ tsPathOf(slug) \in DOMAIN fileText
    /\ Includes(fileText[cssPathOf(slug)],
                CssEntry(slug \o <<"-">> \o toKebabCase(logicalName),
                         TemplateText(value)))
    /\ Includes(fileText[tsPathOf(slug)],
                TsEntry(toCamelCaseParts(brandKey \o <<"-">> \o logicalName),
                        TemplateText(value)))

\* C11: after a build, a brand token whose value is a reference {b} to a
\* primitive that is itself a reference {a} to a primitive (a = "#111",
\* b = "{a}") stands in the brand's files with the value "{a}": one lookup,
\* and the looked-up value is not resolved again.
C11_SingleHop ==
    runs >= 1 =>
        \A b \in WebBrandsBuilt :
            LET leaves == Leaves(BrandTokens(b), <<>>) IN
            \A i \in DOMAIN leaves :
                LET raw == leaves[i].raw
                    hit == Get(PrimitiveTable, ReferenceKey(raw))
                IN (/\ IsReference(raw)
                    /\ HasKey(PrimitiveTable, ReferenceKey(raw))
                    /\ IsReference(hit)
                    /\ HasKey(PrimitiveTable, ReferenceKey(hit)))
                      => EmittedAs(b, leaves[i].logicalName, hit)

\* C12: after a build, every brand token whose value is entirely one
\* reference {key} with key in the Primitive Lookup Table stands in the
\* brand's files with the table's value for that key.
C12_AliasResolved ==
    runs >= 1 =>
        \A b \in WebBrandsBuilt :
            LET leaves == Leaves(BrandTokens(b), <<>>) IN
            \A i \in DOMAIN leaves :
                LET raw == leaves[i].raw IN
                (IsReference(raw) /\ HasKey(PrimitiveTable, ReferenceKey(raw)))
                    => EmittedAs(b, leaves[i].logicalName,
                                 Get(PrimitiveTable, ReferenceKey(raw)))

\* No other token of the tree derives the CSS or the TS name of token i.
NameIsItsOwn(b, leaves, i) ==
    \A j \in DOMAIN leaves :
        j # i =>
            /\ toKebabCase(leaves[j].logicalName) # toKebabCase(leaves[i].logicalName)
            /\ toCamelCaseParts(b \o <<"-">> \o leaves[j].logicalName)
                   # toCamelCaseParts(b \o <<"-">> \o leaves[i].logicalName)

\* C13: after a build, every brand token (of a name no other token shares)
\* whose value is not a string, or is a string that is not entirely one
\* reference {key}, or refers to a key that is not in the Primitive Lookup
\* Table, stands in the brand's files with its value unchanged, and a build
\* for the web has not failed.
C13_UnresolvedPassesThrough ==
    runs >= 1 =>
        \A b \in WebBrandsBuilt :
            /\ legacyTargetOf(platformArg) = S_web => exitCode = 0
            /\ LET leaves == Leaves(BrandTokens(b), <<>>) IN
               \A i \in DOMAIN leaves :
                   LET raw == leaves[i].raw IN
                   (/\ NameIsItsOwn(b, leaves, i)
                    /\ \/ ~IsReference(raw)
                       \/ ~HasKey(PrimitiveTable, ReferenceKey(raw)))
                       => EmittedAs(b, leaves[i].logicalName, raw)

\* ------------------------------------------------------------------------
\* Claims about the primitives of bin/index.js
\* ------------------------------------------------------------------------

\* The build has classified the document and aggregated its primitives.
Aggregated == pc # "start" /\ basePrimitives # Undefined

\* A Token Leaf: an object that carries a value marker.
IsTokenLeaf(v) ==
    v.t = "object" /\ (Get(v, S_value) # Undefined \/ Get(v, S_dvalue) # Undefined)

\* The content of a primitive group: a group with a Token Leaf among its
\* immediate children (a group made of groups only reads as a layer of
\* modes itself).
IsContent(v) ==
    /\ IsGroup(v)
    /\ \E i \in DOMAIN v.kv : IsTokenLeaf(v.kv[i][2])

\* The tokens with the only child of the group under key k put in the
\* group's place: {"Mode 1": G} becomes G.
Unwrapped(toks, k) ==
    SetKey(toks, k, Get(Get(toks, k), ObjectKeys(Get(toks, k))[1]))

\* C14: when a shared group of the document is {"Mode 1": G} for a group
\* content G, the primitives the build has aggregated are the ones it
\* aggregates from the same document with G itself in the group's place.
C14_ModeFlattening ==
    Aggregated =>
        \A i \in DOMAIN sharedKeys :
            LET group == Get(tokens, sharedKeys[i]) IN
            (/\ IsGroup(group)
             /\ Len(ObjectKeys(group)) = 1
             /\ IsContent(Get(group, ObjectKeys(group)[1])))
                => aggregatePrimitives(Unwrapped(tokens, sharedKeys[i]),
                                       sharedKeys, JObj(<<>>))
                       = [threw |-> FALSE, prims |-> basePrimitives]

\* The members of a tree, key by key and in order, down to its leaves:
\* what JSON.stringify writes of it.
RECURSIVE OwnTree(_)
OwnTree(v) ==
    IF v.t # "object" THEN v
    ELSE JObj([i \in DOMAIN v.kv |-> <<v.kv[i][1], OwnTree(v.kv[i][2])>>])

\* C15: normalizeTokens is idempotent: applied to the tree it has returned,
\* it returns a tree structurally equal to it, with the same members in the
\* same order down to the leaves (the prototypes are not compared).
C15_NormalizeIdempotent ==
    [][pc = "normalized" => OwnTree(tokens') = OwnTree(tokens)]_vars

\* The output files the emitters of brand i have written.
WrittenFor(i) ==
    {OutputFile(brandNames[i], p) : p \in {q \in PlatformSet : emit[i][q] = "done"}}

\* C16: the output files written for one brand and the output files written
\* for another brand of the same build have no path in common.
C16_BrandsDisjoint ==
    \A i, j \in DOMAIN emit :
        i # j => WrittenFor(i) \cap WrittenFor(j) = {}

\* ------------------------------------------------------------------------
\* Claims about the classification of the top-level keys
\* ------------------------------------------------------------------------

\* The build has told the component group from the primitive groups.
Classified ==
    /\ pc # "start"
    /\ tokenFileExists(fsFiles)
    /\ \A m \in ClassificationErrors : ~Reported(m)
    /\ ~Reported("error: cannot read the keys of the document")

\* C17: whenever classification has succeeded, the component key is one of
\* the top-level keys, it is not among the primitive keys, and the primitive
\* keys are exactly the other top-level keys.
C17_ComponentExcluded ==
    Classified =>
        LET keys == ObjectKeys(tokens) IN
        /\ componentKey.t = "string"
        /\ \E i \in DOMAIN keys : keys[i] = componentKey.s
        /\ \A i \in DOMAIN sharedKeys : sharedKeys[i] # componentKey.s
        /\ {sharedKeys[i] : i \in DOMAIN sharedKeys}
              = {keys[i] : i \in DOMAIN keys} \ {componentKey.s}

\* The first of the keys satisfying P, as a JSON string.
FirstSuch(keys, P(_)) ==
    JStr(keys[CHOOSE i \in DOMAIN keys :
                P(keys[i]) /\ \A j \in 1..(i - 1) : ~P(keys[j])])

\* The build has read the token file and chosen a component key.
KeysRead == command = "build" /\ pc # "start" /\ tokenFileExists(fsFiles)

\* The name is component-like and not primitive-like.
NamedComponent(k) == componentLike(k) /\ ~primitiveLike(k)

\* The name contains "Component", capital C.
NamedExplicitly(k) == Includes(k, S_Component)

\* C18 (as stated): the component key is the first key with a component-like
\* and not primitive-like name; if there is none it is the second key.
C18_ByNameElseSecond ==
    KeysRead =>
        LET keys == ObjectKeys(tokens) IN
        IF \E i \in DOMAIN keys : NamedComponent(keys[i])
        THEN componentKey = FirstSuch(keys, NamedComponent)
        ELSE IF Len(keys) >= 2 THEN componentKey = JStr(keys[2])
        ELSE componentKey = Undefined

\* C18 (amended): the component key is the first key with a component-like
\* and not primitive-like name; if there is none, the first key whose name
\* contains "Component" (capital C), primitive-like or not; if there is none
\* either, the second key.
C18_ByNameElseExplicitElseSecond ==
    KeysRead =>
        LET keys == ObjectKeys(tokens) IN
        IF \E i \in DOMAIN keys : NamedComponent(keys[i])
        THEN componentKey = FirstSuch(keys, NamedComponent)
        ELSE IF \E i \in DOMAIN keys : NamedExplicitly(keys[i])
        THEN componentKey = FirstSuch(keys, NamedExplicitly)
        ELSE IF Len(keys) >= 2 THEN componentKey = JStr(keys[2])
        ELSE componentKey = Undefined

\* A primitive-like third key chosen by its name over the second key, and the
\* build under way.
C18_Witness ==
    /\ KeysRead
    /\ ObjectKeys(tokens) = <<K_palette, K_themes, K_CoreComponent>>
    /\ primitiveLike(K_CoreComponent)
    /\ componentKey = JStr(K_CoreComponent)
    /\ brandNames = ObjectKeys(ComponentGroup(2))
    /\ started = brandNames
    /\ pc = "exited"
    /\ exitCode = 0

\* ------------------------------------------------------------------------
\* Claims about mode detection and the merge of the primitive groups
\* ------------------------------------------------------------------------

\* A Group with no direct value marker.
IsUnmarkedGroup(v) ==
    IsGroup(v) /\ ~HasKey(v, S_value) /\ ~HasKey(v, S_dvalue)

\* Every immediate child is a Group with no direct value marker.
EveryChildIsAGroup(group) ==
    \A i \in DOMAIN group.kv : IsUnmarkedGroup(group.kv[i][2])

\* The members of an object, as a set of <<key, value>> pairs.
Members(o) == {o.kv[i] : i \in DOMAIN o.kv}

\* C19: when the document has a group of brands and one primitive group,
\* with children, the primitives aggregated are the members of its first child if every child
\* is a Group with no value marker, and the members of the group itself, all
\* of them, otherwise (a Token Leaf of value 0, false or "" included).
C19_ModeNestedIffEveryChildIsAGroup ==
    (Aggregated /\ Len(sharedKeys) = 1) =>
        LET group == Get(tokens, sharedKeys[1]) IN
        (/\ IsGroup(group)
         /\ group.kv # <<>>
         /\ IsUnmarkedGroup(Get(tokens, componentKey.s))) =>
            Members(basePrimitives) =
                IF EveryChildIsAGroup(group)
                THEN Members(Get(group, ObjectKeys(group)[1]))
                ELSE Members(group)

\* What a primitive group contributes to the lookup table: its first child
\* when the build takes it for mode-nested, the group itself otherwise.
ContributionOf(group) ==
    IF hasModes(group) = "true" THEN Get(group, ObjectKeys(group)[1]) ELSE group

\* The tokens of a tree, each as <<path of keys, Token Leaf>>.
RECURSIVE TokenPaths(_, _)
TokenPaths(node, path) ==
    IF IsUnmarkedGroup(node)
    THEN UNION {TokenPaths(node.kv[i][2], Append(path, node.kv[i][1])) :
                    i \in DOMAIN node.kv}
    ELSE {<<path, node>>}

\* C20: when every primitive group contributes a group of tokens, every
\* token path of every group is in the lookup table, with the value of the
\* last group that defines that path.
C20_LastWriteWinsPerPath ==
    (/\ Aggregated
     /\ \A i \in DOMAIN sharedKeys :
            IsUnmarkedGroup(ContributionOf(Get(tokens, sharedKeys[i])))) =>
        \A i \in DOMAIN sharedKeys :
            \A e \in TokenPaths(ContributionOf(Get(tokens, sharedKeys[i])), <<>>) :
                (\A j \in DOMAIN sharedKeys :
                    j > i => \A f \in TokenPaths(ContributionOf(Get(tokens, sharedKeys[j])), <<>>) :
                                f[1] # e[1])
                    => e \in TokenPaths(basePrimitives, <<>>)

\* ------------------------------------------------------------------------
\* Claims about normalizeTokens
\* ------------------------------------------------------------------------

\* The value a Token Leaf carries: its value member, else its $value member.
LeafValue(leaf) ==
    IF HasKey(leaf, S_value) THEN Get(leaf, S_value) ELSE Get(leaf, S_dvalue)

\* A record with a value marker whose value is a string, number or boolean.
IsProperLeaf(v) ==
    /\ v.t = "object"
    /\ HasKey(v, S_value) \/ HasKey(v, S_dvalue)
    /\ LeafValue(v).t \in {"string", "number", "boolean"}

\* A metadata key: a name beginning with "$".
IsMetadataKey(k) == StartsWith(k, <<"$">>)

\* Every member of the group under a non-metadata key is a proper Token
\* Leaf or a group of which the same holds.
RECURSIVE TerminalsAreLeaves(_)
TerminalsAreLeaves(group) ==
    \A i \in DOMAIN group.kv :
        LET v == group.kv[i][2] IN
        IsMetadataKey(group.kv[i][1])
            \/ IsProperLeaf(v)
            \/ (IsUnmarkedGroup(v) /\ TerminalsAreLeaves(v))

\* C21: after normalizeTokens of a document that is a group, every terminal
\* node under a non-metadata key is a Token Leaf whose value is a string, a
\* number or a boolean.
C21_TerminalsAreLeaves ==
    (pc = "normalized" /\ IsUnmarkedGroup(tokenDoc)) => TerminalsAreLeaves(tokens)

\* Position k of s lies inside a {...} reference: after a "{" and before
\* the first "}" that follows it.
InsideReference(s, k) ==
    \E i \in 1..(k - 1) : \E j \in (k + 1)..Len(s) :
        /\ s[i] = "{"
        /\ s[j] = "}"
        /\ \A m \in (i + 1)..(j - 1) : s[m] # "}"

\* Some {...} reference of s contains a "/".
HasSlashReference(s) ==
    \E k \in DOMAIN s : s[k] = "/" /\ InsideReference(s, k)

\* The strings a Token Leaf carries under its value and $value markers.
MarkerStrings(leaf) ==
    {Get(leaf, m).s : m \in {n \in {S_value, S_dvalue} : Get(leaf, n).t = "string"}}

\* after is before with every "/" inside a reference turned into "." and
\* nothing else changed.
OnlyReferencesRewritten(before, after) ==
    IF before.t # "string" THEN after = before
    ELSE /\ after.t = "string"
         /\ Len(after.s) = Len(before.s)
         /\ \A k \in DOMAIN before.s :
                after.s[k] = IF before.s[k] = "/" /\ InsideReference(before.s, k)
                             THEN "." ELSE before.s[k]

\* The members of a group under non-metadata keys, before and after
\* normalization: a raw value has become a leaf of that value, a leaf has
\* kept its value, in both cases up to the rewriting of references; no
\* marker of a leaf holds a reference with a "/".
RECURSIVE ReferencesNormalized(_, _)
ReferencesNormalized(before, after) ==
    \A i \in DOMAIN before.kv :
        LET k == before.kv[i][1]
            b == before.kv[i][2]
            a == Get(after, k)
        IN IF IsMetadataKey(k) THEN TRUE
           ELSE IF b.t \in {"string", "number", "boolean"}
           THEN /\ IsProperLeaf(a)
                /\ OnlyReferencesRewritten(b, LeafValue(a))
                /\ \A str \in MarkerStrings(a) : ~HasSlashReference(str)
           ELSE IF IsProperLeaf(b)
           THEN /\ IsProperLeaf(a)
                /\ OnlyReferencesRewritten(LeafValue(b), LeafValue(a))
                /\ \A str \in MarkerStrings(a) : ~HasSlashReference(str)
           ELSE IF IsUnmarkedGroup(b)
           THEN IsUnmarkedGroup(a) /\ ReferencesNormalized(b, a)
           ELSE TRUE

\* C22: after normalizeTokens of a document that is a group, no reference
\* in a string held by a Token Leaf contains a "/", whether the leaf was
\* given raw or as a record with a value or $value marker, and the leaf's
\* value is otherwise what it was.
C22_ReferencesDotted ==
    (pc = "normalized" /\ IsUnmarkedGroup(tokenDoc))
        => ReferencesNormalized(tokenDoc, tokens)

\* ------------------------------------------------------------------------
\* Claims about metadata keys
\* ------------------------------------------------------------------------

\* Every member under a metadata key, at any depth of the groups, is in the
\* normalized tree what it was in the document.
RECURSIVE MetadataCopied(_, _)
MetadataCopied(before, after) ==
    \A i \in DOMAIN before.kv :
        LET k == before.kv[i][1]
            b == before.kv[i][2]
        IN IF IsMetadataKey(k) THEN Get(after, k) = b
           ELSE IsUnmarkedGroup(b) => MetadataCopied(b, Get(after, k))

\* C23: metadata members pass through normalization unmodified, and no
\* metadata key is the component key, a shared key, or the first mode taken
\* from a primitive group.
C23_MetadataNeverAGroup ==
    (KeysRead /\ tokenDoc.t = "object") =>
        /\ MetadataCopied(tokenDoc, tokens)
        /\ componentKey.t = "string" => ~IsMetadataKey(componentKey.s)
        /\ \A i \in DOMAIN sharedKeys :
              LET group == Get(tokens, sharedKeys[i]) IN
              /\ ~IsMetadataKey(sharedKeys[i])
              /\ hasModes(group) = "true" => ~IsMetadataKey(ObjectKeys(group)[1])

\* ------------------------------------------------------------------------
\* Claims about the brand walker and the writers of unnamed/part_000
\* ------------------------------------------------------------------------

\* The brands the build step just taken has gone through, when it ended
\* with exit code 0, whose subtree in the document is a group and whose
\* name has a letter or a digit.
BrandsBuilt ==
    IF runs >= 1 /\ exitCode = 0
    THEN {b \in {started[i] : i \in DOMAIN started} :
             BrandTokens(b).t = "object" /\ toKebabCase(b) # <<>>}
    ELSE {}

\* The platforms of the build step just taken.
PlatformsBuilt == targetPlatforms(legacyTargetOf(platformArg))

\* "B-L": the brand name and the logical name as one string.
BrandAndName(brandKey, logicalName) == brandKey \o <<"-">> \o logicalName

\* The file a writer has written for a brand holds the text.
FileHolds(dir, name, piece) ==
    \E f \in DOMAIN fileText :
        f.dir = dir /\ f.name = name /\ Includes(fileText[f], piece)

\* The identifier under which each writer of the platforms built declares
\* the token is the case conversion of "B-L".
DeclaredAsBrandAndName(b, logicalName) ==
    LET slug == toKebabCase(b)
        whole == BrandAndName(b, logicalName)
    IN /\ S_web \in PlatformsBuilt =>
            /\ FileHolds(StylesDir, S_theme_dash \o slug \o S_dot_css,
                         <<" ", " ", "-", "-">> \o toKebabCase(whole) \o <<":", " ">>)
            /\ FileHolds(StylesDir, S_theme_dash \o slug \o S_dot_ts,
                         S_export_const \o <<" ">> \o toCamelCaseParts(whole)
                             \o <<" ", "=", " ">>)
       /\ S_android \in PlatformsBuilt =>
            FileHolds("tokens/android", S_theme_us \o slug \o S_dot_kt,
                      <<"c", "o", "n", "s", "t", " ", "v", "a", "l", " ">>
                          \o toUpperSnakeCase(whole) \o <<" ", "=", " ">>)
       /\ S_ios \in PlatformsBuilt =>
            FileHolds("tokens/ios",
                      S_Theme \o <<toUpperCaseChar(slug[1])>> \o Tail(slug) \o S_dot_swift,
                      <<"s", "t", "a", "t", "i", "c", " ", "l", "e", "t", " ">>
                          \o toCamelCaseParts(whole) \o <<" ", "=", " ">>)
       /\ S_flutter \in PlatformsBuilt =>
            FileHolds("tokens/flutter", S_theme_us \o slug \o S_dot_dart,
                      <<"S", "t", "r", "i", "n", "g", " ">>
                          \o toCamelCaseParts(whole) \o <<" ", "=", " ">>)

\* C24: after a build, every token collected for a brand B under the
\* logical name L is declared by each writer under the case conversion of
\* "B-L": kebab for CSS, camel for TS, Swift and Dart, upper snake for
\* Android.
C24_IdentifiersFromBrandAndName ==
    \A b \in BrandsBuilt :
        LET toks == CollectedFor(b) IN
        \A i \in DOMAIN toks : DeclaredAsBrandAndName(b, toks[i].logicalName)

\* The paths of the Token Leaves of a subtree in depth-first pre-order, the
\* members of a group taken in Object.keys order: a leaf is a string, a
\* number or a boolean, or a record with a value marker; a metadata member
\* of a group is no token.
RECURSIVE LeafPaths(_, _)
RECURSIVE LeafPathsOf(_, _, _)
LeafPaths(node, path) ==
    IF node.t = "object"
    THEN IF HasKey(node, S_value) \/ HasKey(node, S_dvalue) THEN <<path>>
         ELSE LeafPathsOf(node, ObjectKeys(node), path)
    ELSE IF node.t \in {"string", "number", "boolean"} THEN <<path>>
    ELSE <<>>

LeafPathsOf(node, ks, path) ==
    IF ks = <<>> THEN <<>>
    ELSE (IF IsMetadataKey(Head(ks)) THEN <<>>
          ELSE LeafPaths(Get(node, Head(ks)), Append(path, Head(ks))))
             \o LeafPathsOf(node, Tail(ks), path)

\* C25: the tokens collected for a brand are one per Token Leaf of the
\* brand's subtree, in depth-first pre-order, each named by the group keys
\* on its path joined with "-".
C25_OneTokenPerLeafInOrder ==
    \A b \in BrandsBuilt :
        LET toks == CollectedFor(b)
            paths == LeafPaths(BrandTokens(b), <<>>)
        IN [i \in DOMAIN toks |-> toks[i].logicalName]
               = [i \in DOMAIN paths |-> Join(paths[i], <<"-">>)]

\* The number of places of text c at which lit begins.
Occurrences(c, lit) ==
    Cardinality({i \in 1..(Len(c) - Len(lit) + 1) :
                    SubSeq(c, i, i + Len(lit) - 1) = lit})

\* How a custom property and an exported constant begin their line.
CssEntryStart == LineJoiner \o <<" ", " ", "-", "-">>
TsEntryStart == LineJoiner \o S_export_const \o <<" ">>

\* The CSS and the TS file in text hold one entry per token of toks, each
\* token under its own value.
OneEntryPerToken(text, slug, toks) ==
    /\ cssPathOf(slug) \in DOMAIN text
    /\ tsPathOf(slug) \in DOMAIN text
    /\ Occurrences(text[cssPathOf(slug)], CssEntryStart) = Len(toks)
    /\ Occurrences(text[tsPathOf(slug)], TsEntryStart) = Len(toks)
    /\ \A i \in DOMAIN toks :
          /\ Includes(text[cssPathOf(slug)], cssLine(toks[i].cssVar, toks[i].value))
          /\ Includes(text[tsPathOf(slug)], tsLine(toks[i].tsName, toks[i].value))

\* C26: a web build that finds no file on disk and ends with exit code 0
\* leaves, for every brand, a CSS file with exactly one custom property per
\* token of the brand and a TS file with exactly one constant per token,
\* each with the token's value.
C26_OneEntryPerToken ==
    [][(/\ fileText = NoText
        /\ exitCode' = 0
        /\ S_web \in PlatformsBuilt)
          => \A i \in DOMAIN started' :
                OneEntryPerToken(fileText', toKebabCase(started'[i]),
                                 CollectedFor(started'[i]))]_vars

\* The tokens a build collects for the brand acme of an edited document.
TokensOfAcme(doc) ==
    walk(Get(Get(doc, K_brands), S_acme), <<>>, S_acme,
         flattenToMap(Get(Get(doc, K_primitives), S_base)).map)

\* The names the builds of the edited documents give to custom properties
\* and to constants.
CssNamesOfBuilds ==
    UNION {{TokensOfAcme(d)[i].cssVar : i \in DOMAIN TokensOfAcme(d)} : d \in EditedDocs}
TsNamesOfBuilds ==
    UNION {{TokensOfAcme(d)[i].tsName : i \in DOMAIN TokensOfAcme(d)} : d \in EditedDocs}

\* The file of the brand acme declares the name.
DeclaresCss(text, name) ==
    /\ cssPathOf(S_acme) \in DOMAIN text
    /\ Includes(text[cssPathOf(S_acme)], CssEntryStart \o name \o <<":">>)
DeclaresTs(text, name) ==
    /\ tsPathOf(S_acme) \in DOMAIN text
    /\ Includes(text[tsPathOf(S_acme)], TsEntryStart \o name \o <<" ", "=">>)

\* C27: once a build has run, no later step (a change of the token
\* document, another build) removes a custom-property name from the CSS file
\* of the brand or a constant name from its TS file.
C27_NamesNeverShrink ==
    [][runs >= 1 =>
          /\ \A n \in CssNamesOfBuilds :
                DeclaresCss(fileText, n) => DeclaresCss(fileText', n)
          /\ \A n \in TsNamesOfBuilds :
                DeclaresTs(fileText, n) => DeclaresTs(fileText', n)]_vars

====
